---- MODULE Spec2Model ----
(***************************************************************************)
(* Redemption / engagement ledger of the vending backend.                  *)
(*                                                                         *)
(* The state is the content of the PostgreSQL tables the customer routes   *)
(* write (discount_codes, discount_redemptions, loyalty_points), the set   *)
(* of existing vending machines, the wall clock, and one record per HTTP   *)
(* request holding the handler's local variables and its position.         *)
(* Every `await query(...)` of a handler is one atomic step: the statement *)
(* executes in the database, and the synchronous JavaScript that follows   *)
(* it runs up to the next await.  Requests interleave freely between       *)
(* steps, because the handlers use neither transactions nor locks.         *)
(***************************************************************************)
EXTENDS Integers, FiniteSets, Sequences, Bags, TLC

(***************************************************************************)
(* Bounds of the model.                                                    *)
(***************************************************************************)
NumCustomers == 2
NumMachines == 2
MaxCodes == 2
MaxReqs == 2
MaxSeqReqs == 3
MaxUsesInput == 1
MaxPointsEarned == 1
MaxTime == 2
NumOptions == 2
MaxVotes == 3
MaxLogins == 2
MaxCreations == 2
MaxTestMachines == 2
MaxVoteReqs == 2

(***************************************************************************)
(* Values.                                                                 *)
(***************************************************************************)
\* SQL NULL and JavaScript null/undefined.  Ids, limits and times start at
\* 1, so that 0 is falsy exactly where the handlers test `!x` or `x &&`.
NULL == 0

Customers == 1 .. NumCustomers
\* One vendor account; vendors and customers share the users table.
VendorId == NumCustomers + 1
Users == Customers \cup {VendorId}
Machines == 1 .. NumMachines
ReqIds == 1 .. MaxReqs
SeqReqIds == 1 .. MaxSeqReqs

\* Code strings a vendor or a customer may type.
CodeInputs == {"save10", "SAVE10", "free5", "FREE5"}

\* String.prototype.toUpperCase on the strings above.
toUpperCase(s) ==
  CASE s = "save10" -> "SAVE10"
    [] s = "free5" -> "FREE5"
    [] OTHER -> s

\* The code the vendor gives to the n-th discount: a fresh one each time.
VendorCode(n) == IF n % 2 = 1 THEN "save10" ELSE "free5"

\* MVP policy: points per proof-of-purchase redemption.
pointsAwarded == 10

VARIABLES
  vending_machines,      \* ids of the rows of vending_machines
  discount_codes,        \* id -> row of discount_codes
  nextDiscountId,        \* the SERIAL sequence of discount_codes.id
  discount_redemptions,  \* bag of rows of discount_redemptions
  loyalty_points,        \* bag of rows of loyalty_points
  now,                   \* NOW() / new Date()
  req,                   \* request id -> handler state
  inactive_machines,     \* ids of the machines with is_active = false
  customer_sessions,     \* id -> row of customer_sessions
  nextSessionId,         \* the SERIAL sequence of customer_sessions.id
  login,                 \* QR login id -> handler state
  polls,                 \* id -> row of polls
  poll_options,          \* id -> row of poll_options
  poll_votes,            \* bag of rows of poll_votes
  polls_columns,         \* names of the columns of polls
  vote,                  \* vote request id -> handler state
  qr_code_data,          \* machine id -> vending_machines.qr_code_data
  nextMachineId,         \* the SERIAL sequence of vending_machines.id
  creation,              \* creation request id -> handler state
  lastCall               \* the latest answered call and its answer

\* Session tables and the QR logins in flight.
sessions == <<inactive_machines, customer_sessions, nextSessionId, login>>

\* Poll tables and the vote requests in flight.
polling == <<polls, poll_options, poll_votes, polls_columns, vote>>

\* The stored QR codes and the machine creations in flight.
machinery == <<qr_code_data, nextMachineId, creation>>

vars == <<vending_machines, discount_codes, nextDiscountId,
          discount_redemptions, loyalty_points, now, req,
          sessions, polling, machinery, lastCall>>

db == <<vending_machines, discount_codes, nextDiscountId,
        discount_redemptions, loyalty_points>>

(***************************************************************************)
(* Bags (tables whose rows carry no modelled id may hold equal rows).      *)
(***************************************************************************)
RECURSIVE SumOver(_, _)
SumOver(f, S) ==
  IF S = {} THEN 0
  ELSE LET x == CHOOSE y \in S : TRUE
       IN  f[x] + SumOver(f, S \ {x})

\* Number of rows of bag B that satisfy P.
CountRows(B, P(_)) ==
  SumOver(B, {row \in DOMAIN B : P(row)})

InsertRow(B, row) == B (+) SetToBag({row})

\* DELETE ... WHERE P
DeleteRows(B, P(_)) ==
  [row \in {x \in DOMAIN B : ~P(x)} |-> B[row]]

\* UPDATE ... SET row = F(row) WHERE P
UpdateRows(B, P(_), F(_)) ==
  LET moved == {row \in DOMAIN B : P(row)}
      kept  == DOMAIN B \ moved
      image == {F(row) : row \in moved}
  IN  [t \in kept \cup image |->
         (IF t \in kept THEN B[t] ELSE 0)
         + SumOver(B, {row \in moved : F(row) = t})]

(***************************************************************************)
(* Schema: constraints the database enforces on every write.               *)
(***************************************************************************)
\* Text columns use this value for SQL NULL.
NullText == "NULL"

idx_redemptions_unique_Missing(rows, row) == TRUE

\* CREATE UNIQUE INDEX idx_redemptions_unique
\*   ON discount_redemptions(discount_code_id, customer_id)
\*   WHERE customer_id IS NOT NULL
idx_redemptions_unique(rows, row) ==
  row.customer_id # NULL =>
    CountRows(rows, LAMBDA x : /\ x.discount_code_id = row.discount_code_id
                               /\ x.customer_id = row.customer_id) = 0

\* discount_redemptions: REFERENCES discount_codes(id), vending_machines(id)
redemptions_foreign_keys(row) ==
  /\ row.discount_code_id \in DOMAIN discount_codes
  /\ row.machine_id \in vending_machines
  /\ row.customer_id \in Users \cup {NULL}

\* loyalty_points: points_earned INTEGER NOT NULL,
\*                 transaction_type VARCHAR(50) NOT NULL
loyalty_not_null(row) ==
  /\ row.customer_id # NULL
  /\ row.machine_id # NULL
  /\ row.points_earned # NULL
  /\ row.transaction_type # NullText

\* loyalty_points: REFERENCES users(id), vending_machines(id)
loyalty_foreign_keys(row) ==
  /\ row.customer_id \in Users
  /\ row.machine_id \in vending_machines

SamePair(x, customerId, machineId) ==
  x.customer_id = customerId /\ x.machine_id = machineId

unique_customer_machine_Missing(rows, row) == TRUE

\* ALTER TABLE loyalty_points ADD CONSTRAINT unique_customer_machine
\*   UNIQUE (customer_id, machine_id)
unique_customer_machine(rows, row) ==
  CountRows(rows, LAMBDA x : SamePair(x, row.customer_id, row.machine_id)) = 0

(***************************************************************************)
(* Statements.  Each yields [ok, <table>]: ok = FALSE is a thrown error    *)
(* and leaves the table as it was.                                         *)
(***************************************************************************)
InsertRedemption_ConflictIgnored(row) ==
  [ok |-> redemptions_foreign_keys(row),
   rows |-> IF /\ redemptions_foreign_keys(row)
               /\ idx_redemptions_unique(discount_redemptions, row)
            THEN InsertRow(discount_redemptions, row)
            ELSE discount_redemptions]

\* INSERT INTO discount_redemptions (...) VALUES (...)
InsertRedemption(row) ==
  IF /\ redemptions_foreign_keys(row)
     /\ idx_redemptions_unique(discount_redemptions, row)
  THEN [ok |-> TRUE, rows |-> InsertRow(discount_redemptions, row)]
  ELSE [ok |-> FALSE, rows |-> discount_redemptions]

IncrementCurrentUses_NoWhere(id) ==
  [d \in DOMAIN discount_codes |->
     [discount_codes[d] EXCEPT !.current_uses = @ + 1]]

\* UPDATE discount_codes SET current_uses = current_uses + 1 WHERE id = $1
IncrementCurrentUses(id) ==
  [d \in DOMAIN discount_codes |->
     IF d = id
     THEN [discount_codes[d] EXCEPT !.current_uses = @ + 1]
     ELSE discount_codes[d]]

\* SELECT id FROM discount_redemptions
\*  WHERE discount_code_id = $1 AND customer_id = $2
SelectRedemptions(discountId, customerId) ==
  CountRows(discount_redemptions,
            LAMBDA x : /\ x.discount_code_id = discountId
                       /\ x.customer_id = customerId)

\* SELECT id, points_balance FROM loyalty_points
\*  WHERE customer_id = $1 AND machine_id = $2
SelectLoyalty(customerId, machineId) ==
  CountRows(loyalty_points, LAMBDA x : SamePair(x, customerId, machineId))

AddPoints_Debit(row, points) ==
  [row EXCEPT !.points_balance = @ + points,
              !.lifetime_points = @ - points]

AddPoints(row, points) ==
  [row EXCEPT !.points_balance = @ + points,
              !.lifetime_points = @ + points]

\* UPDATE loyalty_points SET points_balance = points_balance + $1,
\*   lifetime_points = lifetime_points + $1 WHERE customer_id = $2 AND machine_id = $3
UpdateLoyalty(customerId, machineId, points) ==
  UpdateRows(loyalty_points,
             LAMBDA x : SamePair(x, customerId, machineId),
             LAMBDA x : AddPoints(x, points))

\* INSERT INTO loyalty_points (...) VALUES (...)
InsertLoyalty(row) ==
  IF /\ loyalty_not_null(row)
     /\ loyalty_foreign_keys(row)
     /\ unique_customer_machine(loyalty_points, row)
  THEN [ok |-> TRUE, rows |-> InsertRow(loyalty_points, row)]
  ELSE [ok |-> FALSE, rows |-> loyalty_points]

UpsertLoyalty_Overwrite(row) ==
  IF ~(loyalty_not_null(row) /\ loyalty_foreign_keys(row))
  THEN [ok |-> FALSE, rows |-> loyalty_points]
  ELSE [ok |-> TRUE,
        rows |-> InsertRow(DeleteRows(loyalty_points,
                                      LAMBDA x : SamePair(x, row.customer_id,
                                                          row.machine_id)),
                           row)]

\* INSERT INTO loyalty_points (...) VALUES ($1, $2, $3, $3, $3, ...)
\*   ON CONFLICT (customer_id, machine_id) DO UPDATE SET
\*     points_balance = loyalty_points.points_balance + $3,
\*     lifetime_points = loyalty_points.lifetime_points + $3
UpsertLoyalty(row) ==
  IF ~(loyalty_not_null(row) /\ loyalty_foreign_keys(row))
  THEN [ok |-> FALSE, rows |-> loyalty_points]
  ELSE IF unique_customer_machine(loyalty_points, row)
  THEN [ok |-> TRUE, rows |-> InsertRow(loyalty_points, row)]
  ELSE [ok |-> TRUE,
        rows |-> UpdateLoyalty(row.customer_id, row.machine_id, row.points_balance)]

(***************************************************************************)
(* Requests.                                                               *)
(***************************************************************************)
\* What the auth middleware attaches to a request: req.session for a live
\* customer session (customerId NULL while anonymous), req.user alone for a
\* vendor's signed credential.
Principals ==
  {[hasSession |-> TRUE, customerId |-> c, machineId |-> m, userId |-> c] :
     c \in Customers \cup {NULL}, m \in vending_machines}
  \cup {[hasSession |-> FALSE, customerId |-> NULL, machineId |-> NULL,
         userId |-> VendorId]}

IdleReq ==
  [kind |-> "none", pc |-> "idle", customerId |-> NULL, machineId |-> NULL,
   discountId |-> NULL, inserted |-> FALSE, loyaltyRows |-> 0,
   pointsEarned |-> 0, result |-> "none"]

\* Requests take the slots in order: the id is only a name.
IsNext(r) ==
  /\ req[r].pc = "idle"
  /\ \A q \in DOMAIN req : q < r => req[q].pc # "idle"

\* Responses sent before the handler has looked at a discount row.
EarlyResults ==
  {"NoMachineSession", "RegisterRequired", "AuthRequired", "ProofRequired",
   "ValidationError", "NotFound"}

\* What stays of a request once it is answered: the response; who asked,
\* where and for which code, when the handler got as far as the discount
\* row; whether its redemption row went in; and, for an acknowledged award,
\* the amount.
Answered(q, result) ==
  LET award == result = "ok" /\ q.kind \in {"submit", "loyalty"}
      early == result \in EarlyResults \/ (result = "ServerError" /\ q.pc = "idle")
  IN  [q EXCEPT !.pc = "done", !.result = result, !.loyaltyRows = 0,
                !.customerId = IF early THEN NULL ELSE @,
                !.discountId = IF early THEN NULL ELSE @,
                !.machineId = IF early THEN NULL ELSE @,
                !.pointsEarned = IF award THEN @ ELSE 0]

\* res.status(...).json(...): the handler ends with this response.
Respond(r, result) ==
  [req EXCEPT ![r] = Answered(req[r], result)]

\* HTTP status of each response.
Status(result) ==
  CASE result = "ok" -> 200
    [] result \in {"RegisterRequired", "AuthRequired"} -> 401
    [] result = "NotFound" -> 404
    [] result = "ServerError" -> 500
    [] OTHER -> 400

DiscountChecks_InactiveFirst(discount, machineId) ==
  IF ~discount.is_active THEN "Inactive"
  ELSE IF discount.machine_id # machineId THEN "WrongMachine"
  ELSE IF discount.valid_from # NULL /\ discount.valid_from > now THEN "NotYetValid"
  ELSE IF discount.valid_until # NULL /\ discount.valid_until < now THEN "Expired"
  ELSE IF discount.max_uses # NULL /\ discount.current_uses >= discount.max_uses
  THEN "LimitReached"
  ELSE "pass"

DiscountChecks_NoLimit(discount, machineId) ==
  IF discount.machine_id # machineId THEN "WrongMachine"
  ELSE IF ~discount.is_active THEN "Inactive"
  ELSE IF discount.valid_from # NULL /\ discount.valid_from > now THEN "NotYetValid"
  ELSE IF discount.valid_until # NULL /\ discount.valid_until < now THEN "Expired"
  ELSE "pass"

\* The checks both redemption handlers run on the selected discount row,
\* in the order of the code; "pass" when none fails.
DiscountChecks(discount, machineId) ==
  IF discount.machine_id # machineId THEN "WrongMachine"
  ELSE IF ~discount.is_active THEN "Inactive"
  ELSE IF discount.valid_from # NULL /\ discount.valid_from > now THEN "NotYetValid"
  ELSE IF discount.valid_until # NULL /\ discount.valid_until < now THEN "Expired"
  ELSE IF discount.max_uses # NULL /\ discount.current_uses >= discount.max_uses
  THEN "LimitReached"
  ELSE "pass"

(***************************************************************************)
(* POST /api/customer/discounts/redeem                                     *)
(***************************************************************************)
\* SELECT ... FROM discount_codes WHERE code = $1
SelectDiscountByCode(code) ==
  {d \in DOMAIN discount_codes : discount_codes[d].code = code}

\* From the entry of the handler to the checks on the row found by code.
RedeemLookup(p, code) ==
  IF ~p.hasSession THEN [result |-> "ServerError", id |-> NULL]
  ELSE IF p.machineId = NULL THEN [result |-> "NoMachineSession", id |-> NULL]
  ELSE IF p.customerId = NULL THEN [result |-> "RegisterRequired", id |-> NULL]
  ELSE LET found == SelectDiscountByCode(toUpperCase(code))
       IN  IF found = {} THEN [result |-> "NotFound", id |-> NULL]
           ELSE LET d == CHOOSE x \in found : TRUE
                IN  [result |-> DiscountChecks(discount_codes[d], p.machineId),
                     id |-> d]

\* The request of principal p with the given code arrives and runs to its
\* second query or to an early response.
RedeemStartWith(r, p, code) ==
  /\ IsNext(r)
  /\ LET look == RedeemLookup(p, code)
         started == [IdleReq EXCEPT !.kind = "redeem",
                                    !.customerId = p.customerId,
                                    !.machineId = p.machineId,
                                    !.discountId = look.id]
     IN  req' = [req EXCEPT ![r] =
                   IF look.result = "pass"
                   THEN [started EXCEPT !.pc = "redemptionCheck"]
                   ELSE Answered(started, look.result)]
  /\ UNCHANGED <<machinery, sessions, polling, lastCall, db, now>>

RedeemStart(r) ==
  \E p \in Principals, code \in CodeInputs : RedeemStartWith(r, p, code)

RedeemRedemptionCheck_CountsFirst(r) ==
  /\ req[r].kind = "redeem"
  /\ req[r].pc = "redemptionCheck"
  /\ discount_codes' = IncrementCurrentUses(req[r].discountId)
  /\ req' = IF SelectRedemptions(req[r].discountId, req[r].customerId) > 0
            THEN Respond(r, "AlreadyRedeemed")
            ELSE [req EXCEPT ![r].pc = "insert"]
  /\ UNCHANGED <<machinery, sessions, polling, lastCall, vending_machines, nextDiscountId,
                 discount_redemptions, loyalty_points, now>>

RedeemRedemptionCheck(r) ==
  /\ req[r].kind = "redeem"
  /\ req[r].pc = "redemptionCheck"
  /\ req' = IF SelectRedemptions(req[r].discountId, req[r].customerId) > 0
            THEN Respond(r, "AlreadyRedeemed")
            ELSE [req EXCEPT ![r].pc = "insert"]
  /\ UNCHANGED <<machinery, sessions, polling, lastCall, db, now>>

RedeemRow(r) ==
  [discount_code_id |-> req[r].discountId, customer_id |-> req[r].customerId,
   machine_id |-> req[r].machineId, proof_image_url |-> NullText,
   status |-> "pending", points_awarded |-> 0]

RedeemInsert(r) ==
  /\ req[r].kind = "redeem"
  /\ req[r].pc = "insert"
  /\ LET ins == InsertRedemption(RedeemRow(r))
     IN  /\ discount_redemptions' = ins.rows
         /\ req' = IF ins.ok
                   THEN [req EXCEPT ![r].pc = "increment", ![r].inserted = TRUE]
                   ELSE Respond(r, "ServerError")
  /\ UNCHANGED <<machinery, sessions, polling, lastCall, vending_machines, discount_codes, nextDiscountId,
                 loyalty_points, now>>

RedeemIncrement(r) ==
  /\ req[r].kind = "redeem"
  /\ req[r].pc = "increment"
  /\ discount_codes' = IncrementCurrentUses(req[r].discountId)
  /\ req' = Respond(r, "ok")
  /\ UNCHANGED <<machinery, sessions, polling, lastCall, vending_machines, nextDiscountId, discount_redemptions,
                 loyalty_points, now>>

(***************************************************************************)
(* POST /api/customer/redemptions/submit                                   *)
(***************************************************************************)
\* req.session?.customerId || req.user?.id
SubmitCustomerId(p) ==
  IF p.hasSession /\ p.customerId # NULL THEN p.customerId ELSE p.userId

\* From the entry of the handler to the checks on the row found by id.
SubmitLookup(p, machineId, discountId, hasFile) ==
  IF SubmitCustomerId(p) = NULL THEN "AuthRequired"
  ELSE IF ~hasFile THEN "ProofRequired"
  ELSE IF discountId \notin DOMAIN discount_codes THEN "NotFound"
  ELSE DiscountChecks(discount_codes[discountId], machineId)

\* The request of principal p with the given body arrives and runs to its
\* second query or to an early response.
SubmitStartWith(r, p, machineId, discountId, hasFile) ==
  /\ IsNext(r)
  /\ LET result == SubmitLookup(p, machineId, discountId, hasFile)
         started == [IdleReq EXCEPT !.kind = "submit",
                                    !.customerId = SubmitCustomerId(p),
                                    !.machineId = machineId,
                                    !.discountId = discountId,
                                    !.pointsEarned = pointsAwarded]
     IN  req' = [req EXCEPT ![r] =
                   IF result = "pass"
                   THEN [started EXCEPT !.pc = "redemptionCheck"]
                   ELSE Answered(started, result)]
  /\ UNCHANGED <<machinery, sessions, polling, lastCall, db, now>>

SubmitStart(r) ==
  \E p \in Principals, machineId \in Machines, discountId \in 1 .. MaxCodes,
     hasFile \in BOOLEAN :
    SubmitStartWith(r, p, machineId, discountId, hasFile)

SubmitRedemptionCheck(r) ==
  /\ req[r].kind = "submit"
  /\ req[r].pc = "redemptionCheck"
  /\ req' = IF SelectRedemptions(req[r].discountId, req[r].customerId) > 0
            THEN Respond(r, "AlreadyRedeemed")
            ELSE [req EXCEPT ![r].pc = "insert"]
  /\ UNCHANGED <<machinery, sessions, polling, lastCall, db, now>>

SubmitRow(r) ==
  [discount_code_id |-> req[r].discountId, customer_id |-> req[r].customerId,
   machine_id |-> req[r].machineId, proof_image_url |-> "/uploads/proofs/file",
   status |-> "approved", points_awarded |-> pointsAwarded]

SubmitInsert(r) ==
  /\ req[r].kind = "submit"
  /\ req[r].pc = "insert"
  /\ LET ins == InsertRedemption(SubmitRow(r))
     IN  /\ discount_redemptions' = ins.rows
         /\ req' = IF ins.ok
                   THEN [req EXCEPT ![r].pc = "increment", ![r].inserted = TRUE]
                   ELSE Respond(r, "ServerError")
  /\ UNCHANGED <<machinery, sessions, polling, lastCall, vending_machines, discount_codes, nextDiscountId,
                 loyalty_points, now>>

SubmitIncrement(r) ==
  /\ req[r].kind = "submit"
  /\ req[r].pc = "increment"
  /\ discount_codes' = IncrementCurrentUses(req[r].discountId)
  /\ req' = [req EXCEPT ![r].pc = "loyaltyCheck"]
  /\ UNCHANGED <<machinery, sessions, polling, lastCall, vending_machines, nextDiscountId, discount_redemptions,
                 loyalty_points, now>>

SubmitLoyaltyCheck(r) ==
  /\ req[r].kind = "submit"
  /\ req[r].pc = "loyaltyCheck"
  /\ req' = [req EXCEPT ![r].pc = "loyaltyWrite",
                        ![r].loyaltyRows =
                          SelectLoyalty(req[r].customerId, req[r].machineId)]
  /\ UNCHANGED <<machinery, sessions, polling, lastCall, db, now>>

\* INSERT INTO loyalty_points (customer_id, machine_id, points_balance,
\*   lifetime_points) VALUES ($1, $2, $3, $4): the other columns get their
\* defaults, and points_earned and transaction_type have none.
SubmitLoyaltyRow(r) ==
  [customer_id |-> req[r].customerId, machine_id |-> req[r].machineId,
   points_balance |-> pointsAwarded, lifetime_points |-> pointsAwarded,
   points_earned |-> NULL, transaction_type |-> NullText]

\* The award of the handler: UPDATE when the check found a row, else INSERT.
SubmitAward(r) ==
  IF req[r].loyaltyRows > 0
  THEN [ok |-> TRUE,
        rows |-> UpdateLoyalty(req[r].customerId, req[r].machineId, pointsAwarded)]
  ELSE InsertLoyalty(SubmitLoyaltyRow(r))

SubmitLoyaltyWrite(r) ==
  /\ req[r].kind = "submit"
  /\ req[r].pc = "loyaltyWrite"
  /\ LET award == SubmitAward(r)
     IN  /\ loyalty_points' = award.rows
         /\ req' = IF award.ok
                   THEN [req EXCEPT ![r].pc = "loyaltyTotals"]
                   ELSE Respond(r, "ServerError")
  /\ UNCHANGED <<machinery, sessions, polling, lastCall, vending_machines, discount_codes, nextDiscountId,
                 discount_redemptions, now>>

\* SELECT SUM(points_balance), SUM(lifetime_points) ...: only the response
\* body depends on it.
SubmitLoyaltyTotals(r) ==
  /\ req[r].kind = "submit"
  /\ req[r].pc = "loyaltyTotals"
  /\ req' = Respond(r, "ok")
  /\ UNCHANGED <<machinery, sessions, polling, lastCall, db, now>>

(***************************************************************************)
(* POST /api/customer/loyalty/submit                                       *)
(***************************************************************************)
LoyaltyValidate(p, pointsEarned) ==
  IF ~p.hasSession THEN "ServerError"
  ELSE IF p.machineId = NULL THEN "NoMachineSession"
  ELSE IF pointsEarned < 1 THEN "ValidationError"
  ELSE IF p.customerId = NULL THEN "RegisterRequired"
  ELSE "pass"

LoyaltyStart(r) ==
  \E p \in Principals, pointsEarned \in 0 .. MaxPointsEarned :
    /\ IsNext(r)
    /\ LET result == LoyaltyValidate(p, pointsEarned)
           started == [IdleReq EXCEPT !.kind = "loyalty",
                                      !.customerId = p.customerId,
                                      !.machineId = p.machineId,
                                      !.pointsEarned = pointsEarned]
       IN  req' = [req EXCEPT ![r] =
                     IF result = "pass"
                     THEN [started EXCEPT !.pc = "upsert"]
                     ELSE Answered(started, result)]
    /\ UNCHANGED <<machinery, sessions, polling, lastCall, db, now>>

LoyaltyRow(r) ==
  [customer_id |-> req[r].customerId, machine_id |-> req[r].machineId,
   points_balance |-> req[r].pointsEarned, lifetime_points |-> req[r].pointsEarned,
   points_earned |-> req[r].pointsEarned, transaction_type |-> "manual_submission"]

LoyaltyUpsert(r) ==
  /\ req[r].kind = "loyalty"
  /\ req[r].pc = "upsert"
  /\ LET up == UpsertLoyalty(LoyaltyRow(r))
     IN  /\ loyalty_points' = up.rows
         /\ req' = Respond(r, IF up.ok THEN "ok" ELSE "ServerError")
  /\ UNCHANGED <<machinery, sessions, polling, lastCall, vending_machines, discount_codes, nextDiscountId,
                 discount_redemptions, now>>

(***************************************************************************)
(* Vendor routes that write the tables above.  The vendor owns every       *)
(* machine.                                                                *)
(***************************************************************************)
\* startsAt / endsAt a vendor may give; both are optional.
NoWindow == {<<NULL, NULL>>}
Windows == NoWindow \cup {<<MaxTime, NULL>>, <<NULL, 1>>}

\* POST /api/vendor/machines/:machineId/discounts, when it inserts: the
\* machine exists and the upper-cased code is not taken (404 and 409
\* otherwise, nothing written).
CreateDiscount(windows) ==
  \E machineId \in vending_machines, code \in {VendorCode(nextDiscountId)},
     maxUses \in {NULL} \cup (1 .. MaxUsesInput), w \in windows :
    /\ nextDiscountId <= MaxCodes
    /\ SelectDiscountByCode(toUpperCase(code)) = {}
    /\ discount_codes' =
         [d \in DOMAIN discount_codes \cup {nextDiscountId} |->
            IF d = nextDiscountId
            THEN [machine_id |-> machineId, code |-> toUpperCase(code),
                  max_uses |-> maxUses, current_uses |-> 0,
                  valid_from |-> w[1], valid_until |-> w[2], is_active |-> TRUE]
            ELSE discount_codes[d]]
    /\ nextDiscountId' = nextDiscountId + 1
    /\ UNCHANGED <<machinery, sessions, polling, lastCall, vending_machines, discount_redemptions, loyalty_points, now, req>>

\* DELETE FROM discount_codes WHERE id = ... (ON DELETE CASCADE)
DeleteCodes(gone) ==
  /\ discount_codes' = [d \in DOMAIN discount_codes \ gone |-> discount_codes[d]]
  /\ discount_redemptions' =
       DeleteRows(discount_redemptions,
                  LAMBDA x : x.discount_code_id \in gone \/ x.machine_id \notin vending_machines')

\* DELETE /api/vendor/machines/:machineId/discounts/:discountId
DeleteDiscount ==
  \E d \in DOMAIN discount_codes :
    /\ vending_machines' = vending_machines
    /\ DeleteCodes({d})
    /\ UNCHANGED <<machinery, sessions, polling, lastCall, nextDiscountId, loyalty_points, now, req>>

fk_sessions_machine_SetNull(m) ==
  [s \in DOMAIN customer_sessions |->
     IF customer_sessions[s].machine_id = m
     THEN [customer_sessions[s] EXCEPT !.machine_id = NULL]
     ELSE customer_sessions[s]]

\* customer_sessions.machine_id REFERENCES vending_machines(id) ON DELETE
\* CASCADE: the table after machine m is deleted.
fk_sessions_machine(m) ==
  [s \in {x \in DOMAIN customer_sessions : customer_sessions[x].machine_id # m}
     |-> customer_sessions[s]]

\* DELETE /api/vendor/machines/:id (ON DELETE CASCADE)
DeleteMachine ==
  \E m \in vending_machines :
    /\ vending_machines' = vending_machines \ {m}
    /\ DeleteCodes({d \in DOMAIN discount_codes : discount_codes[d].machine_id = m})
    /\ loyalty_points' = DeleteRows(loyalty_points, LAMBDA x : x.machine_id = m)
    /\ inactive_machines' = inactive_machines \ {m}
    /\ customer_sessions' = fk_sessions_machine(m)
    /\ polls' = [p \in {x \in DOMAIN polls : polls[x].machine_id # m} |-> polls[p]]
    /\ poll_options' =
         [o \in {x \in DOMAIN poll_options : poll_options[x].poll_id \in DOMAIN polls'}
            |-> poll_options[o]]
    /\ poll_votes' = DeleteRows(poll_votes, LAMBDA x : x.poll_id \notin DOMAIN polls')
    /\ qr_code_data' = [x \in vending_machines' |-> qr_code_data[x]]
    /\ UNCHANGED <<nextMachineId, creation, nextDiscountId, now, req, nextSessionId, login,
                   polls_columns, vote, lastCall>>

\* Time passes.
Tick ==
  /\ now < MaxTime
  /\ now' = now + 1
  /\ UNCHANGED <<machinery, sessions, polling, lastCall, db, req>>

(***************************************************************************)
(* QR payload service.  Time is counted in hours from here on; the code    *)
(* counts milliseconds and compares them the same way.                     *)
(***************************************************************************)
\* const MAX_AGE = 365 * 24 * 60 * 60 * 1000
MAX_AGE == 365 * 24

\* The instant the session and QR specifications start at: late enough for
\* a QR code stamped after 1970 to be older than MAX_AGE.
Epoch == MAX_AGE + 3

\* Buffer.from(process.env.QR_ENCRYPTION_KEY || '1234...', 'utf8').slice(0, 32)
ENCRYPTION_KEY == "QR_ENCRYPTION_KEY"

\* crypto.randomBytes(IV_LENGTH)
IVs == {1, 2}

\* uuidv4() of a payload
UniqueIds == {1, 2}

\* JSON.stringify(payload): the members in order, numbers as decimal text.
JSONstringify(payload) ==
  [wellFormed |-> TRUE,
   members |-> <<<<"machineId", payload.machineId>>,
                 <<"timestamp", payload.timestamp>>,
                 <<"uniqueId", payload.uniqueId>>>>]

\* The value of member `key` of a parsed object; undefined (NULL) if absent.
Member(text, key) ==
  LET at == {i \in DOMAIN text.members : text.members[i][1] = key}
  IN  IF at = {} THEN NULL ELSE text.members[CHOOSE i \in at : TRUE][2]

\* JSON.parse(text), for a text that parses.
JSONparse(text) ==
  [machineId |-> Member(text, "machineId"),
   timestamp |-> Member(text, "timestamp"),
   uniqueId |-> Member(text, "uniqueId")]

\* What decryption yields when key or IV are not the ones of encryption:
\* bytes that are no JSON text.
Garbled == [wellFormed |-> FALSE, members |-> <<>>]

encrypt_FixedIVPrefix(text, iv) ==
  [iv |-> 1, encrypted |-> [key |-> ENCRYPTION_KEY, iv |-> iv, text |-> text]]

\* encrypt(text): iv.toString('hex') + ':' + ciphertext, the ciphertext
\* depending on key, IV and plaintext.
encrypt(text, iv) ==
  [iv |-> iv, encrypted |-> [key |-> ENCRYPTION_KEY, iv |-> iv, text |-> text]]

\* decrypt(text): the part before ':' is the IV, the rest the ciphertext.
decrypt(qrData) ==
  IF qrData.encrypted.key = ENCRYPTION_KEY /\ qrData.encrypted.iv = qrData.iv
  THEN qrData.encrypted.text
  ELSE Garbled

\* generateQRCodeData(machineId), with the random IV and uuid it draws.
generateQRCodeData(machineId, iv, uniqueId) ==
  LET payload == [machineId |-> machineId, timestamp |-> now, uniqueId |-> uniqueId]
  IN  [qrData |-> encrypt(JSONstringify(payload), iv), payload |-> payload]

NoPayload == [machineId |-> NULL, timestamp |-> NULL, uniqueId |-> NULL]

\* throw new Error('Invalid or corrupted QR code: ' + error.message)
Corrupted(message) ==
  [valid |-> FALSE, payload |-> NoPayload,
   message |-> <<"Invalid or corrupted QR code: ", message>>]

validateQRCodeData_NoMaxAge(encryptedData) ==
  LET decrypted == decrypt(encryptedData)
      payload == JSONparse(decrypted)
  IN  IF ~decrypted.wellFormed THEN Corrupted("SyntaxError")
      ELSE IF payload.machineId = NULL \/ payload.timestamp = NULL
              \/ payload.uniqueId = NULL
      THEN Corrupted("Invalid QR code format")
      ELSE [valid |-> TRUE, payload |-> payload, message |-> <<>>]

\* validateQRCodeData(encryptedData): the payload, or the error thrown.
validateQRCodeData(encryptedData) ==
  LET decrypted == decrypt(encryptedData)
      payload == JSONparse(decrypted)
  IN  IF ~decrypted.wellFormed THEN Corrupted("SyntaxError")
      ELSE IF payload.machineId = NULL \/ payload.timestamp = NULL
              \/ payload.uniqueId = NULL
      THEN Corrupted("Invalid QR code format")
      ELSE IF now - payload.timestamp > MAX_AGE THEN Corrupted("QR code expired")
      ELSE [valid |-> TRUE, payload |-> payload, message |-> <<>>]

\* Instants payloads were stamped at: around MAX_AGE before Epoch, and
\* shortly before it.
Timestamps ==
  {Epoch - MAX_AGE - 2, Epoch - MAX_AGE - 1, Epoch - MAX_AGE, Epoch - MAX_AGE + 1,
   Epoch - 1}

\* The codes the service issued: generateQRCodeData(m) run at instant t;
\* m = 0 is the temporary code of a machine being created.
IssuedQR ==
  {encrypt(JSONstringify([machineId |-> m, timestamp |-> t, uniqueId |-> u]), iv) :
     m \in {0} \cup Machines, t \in Timestamps, u \in {1}, iv \in {1}}

\* Strings that are no issued code: sealed under another key, the IV
\* replaced, or a JSON text without the members of a payload.
ForeignQR ==
  {[iv |-> 1, encrypted |-> [key |-> "other", iv |-> 1,
                             text |-> JSONstringify([machineId |-> 1,
                                                     timestamp |-> Epoch - 1,
                                                     uniqueId |-> 1])]],
   [iv |-> 2, encrypted |-> [key |-> ENCRYPTION_KEY, iv |-> 1,
                             text |-> JSONstringify([machineId |-> 1,
                                                     timestamp |-> Epoch - 1,
                                                     uniqueId |-> 1])]],
   encrypt([wellFormed |-> TRUE, members |-> <<<<"machineId", 1>>>>], 1)}

\* The instants of the QR specification.
QRInstants == {Epoch, Epoch + 1, Epoch + 2}

\* Time passes, to one of the given instants.
Advance(instants) ==
  /\ \E t \in instants : t > now /\ now' = t
  /\ UNCHANGED <<machinery, db, req, sessions, polling, lastCall>>

\* generateQRCodeData(machineId) and validateQRCodeData of its result.
ScanGenerated ==
  \E machineId \in {0} \cup Machines, iv \in IVs, uniqueId \in UniqueIds :
    LET generated == generateQRCodeData(machineId, iv, uniqueId)
    IN  /\ lastCall' = [op |-> "generate", machineId |-> machineId,
                        qrData |-> generated.qrData,
                        result |-> validateQRCodeData(generated.qrData), at |-> now]
        /\ UNCHANGED <<machinery, db, now, req, sessions, polling>>

\* validateQRCodeData of a scanned string.
Scan ==
  \E qrData \in IssuedQR \cup ForeignQR :
    /\ lastCall' = [op |-> "validate", machineId |-> NULL, qrData |-> qrData,
                    result |-> validateQRCodeData(qrData), at |-> now]
    /\ UNCHANGED <<machinery, db, now, req, sessions, polling>>

(***************************************************************************)
(* Session manager and auth gate.                                          *)
(***************************************************************************)
\* parseInt(process.env.SESSION_EXPIRY_HOURS) || 24
SESSION_EXPIRY_HOURS == 24

\* process.env.JWT_EXPIRES_IN || '1h'
JWT_EXPIRES_IN == 1

JWT_SECRET == "JWT_SECRET"

LoginIds == 1 .. MaxLogins

\* The instants of the session specification: a login, an hour later, and
\* the instants around the expiry of the sessions created at these.
AuthInstants ==
  {Epoch, Epoch + 1, Epoch + SESSION_EXPIRY_HOURS, Epoch + SESSION_EXPIRY_HOURS + 1}

\* users.role
RoleOf(u) == IF u = VendorId THEN "vendor" ELSE "customer"

\* The n-th value of uuidv4(): never the same twice.
uuidv4(n) == n

\* A session token as the bearer token of a request.
Bearer(sessionToken) ==
  [kind |-> "uuid", id |-> sessionToken, role |-> "", secret |-> "", exp |-> 0]

\* jwt.sign({ id, email, role }, secret, { expiresIn }) at instant t.
jwtSign(user, secret, t) ==
  [kind |-> "jwt", id |-> user, role |-> RoleOf(user), secret |-> secret,
   exp |-> t + JWT_EXPIRES_IN]

\* jwt.verify(token, process.env.JWT_SECRET): the signature is checked
\* before the expiry.
jwtVerify(token) ==
  IF token.kind # "jwt" \/ token.secret # JWT_SECRET
  THEN [ok |-> FALSE, name |-> "JsonWebTokenError", id |-> NULL, role |-> ""]
  ELSE IF now >= token.exp
  THEN [ok |-> FALSE, name |-> "TokenExpiredError", id |-> NULL, role |-> ""]
  ELSE [ok |-> TRUE, name |-> "", id |-> token.id, role |-> token.role]

\* The bearer tokens requests present: the session tokens issued and one
\* never issued, the vendor's JWT of a login at Epoch, and a JWT signed
\* with another secret.
BearerTokens ==
  {Bearer(uuidv4(n)) : n \in 1 .. MaxLogins + 1}
    \cup {jwtSign(VendorId, JWT_SECRET, Epoch),
          jwtSign(VendorId, "other", Epoch + SESSION_EXPIRY_HOURS + 1)}

\* Ids of the rows WHERE session_token = token.
SessionsByToken(token) ==
  {s \in DOMAIN customer_sessions :
     token.kind = "uuid" /\ customer_sessions[s].session_token = token.id}

\* CustomerSession.findByToken
findByToken(token) ==
  IF SessionsByToken(token) = {} THEN NULL
  ELSE CHOOSE s \in SessionsByToken(token) : TRUE

\* CustomerSession.isValid
isValid(token) ==
  \E s \in SessionsByToken(token) : customer_sessions[s].expires_at > now

\* The answer of a gate: 200 stands for next().
Unauthorized(message) ==
  [status |-> 401, message |-> message, user |-> NULL, role |-> "", session |-> NULL]

AsUser(u) ==
  [status |-> 200, message |-> "", user |-> u, role |-> RoleOf(u), session |-> NULL]

AsSession(s) ==
  [status |-> 200, message |-> "",
   user |-> customer_sessions[s].customer_id,
   role |-> IF customer_sessions[s].customer_id = NULL THEN ""
            ELSE RoleOf(customer_sessions[s].customer_id),
   session |-> s]

\* WHERE cs.session_token = $1 AND cs.expires_at > NOW()
LiveSessions(token) ==
  {s \in SessionsByToken(token) : customer_sessions[s].expires_at > now}

protect_NoFallback(token) ==
  LET decoded == jwtVerify(token)
  IN  IF decoded.ok /\ decoded.id \in Users THEN AsUser(decoded.id)
      ELSE Unauthorized("Invalid or expired token.")

\* protect: the JWT first; the session lookup in the catch of jwt.verify.
protect(token) ==
  LET decoded == jwtVerify(token)
  IN  IF decoded.ok
      THEN IF decoded.id \in Users THEN AsUser(decoded.id)
           ELSE Unauthorized("Invalid or expired token.")
      ELSE IF LiveSessions(token) # {}
      THEN AsSession(CHOOSE s \in LiveSessions(token) : TRUE)
      ELSE Unauthorized("Invalid or expired token.")

\* GET /api/auth/verify
authVerify(token) ==
  LET decoded == jwtVerify(token)
      session == findByToken(token)
  IN  IF decoded.ok /\ decoded.id \in Users /\ RoleOf(decoded.id) = "vendor"
      THEN AsUser(decoded.id)
      ELSE IF session # NULL /\ customer_sessions[session].expires_at > now
      THEN AsSession(session)
      ELSE Unauthorized("Invalid or expired token")

verifyCustomerSession_ExpiryIgnored(token) ==
  IF SessionsByToken(token) # {}
  THEN AsSession(CHOOSE s \in SessionsByToken(token) : TRUE)
  ELSE Unauthorized("Invalid or expired session.")

\* verifyCustomerSession
verifyCustomerSession(token) ==
  IF LiveSessions(token) # {}
  THEN AsSession(CHOOSE s \in LiveSessions(token) : TRUE)
  ELSE Unauthorized("Invalid or expired session.")

\* verifyToken: SELECT ... FROM users WHERE id = $1 AND role = $2
verifyToken(token) ==
  LET decoded == jwtVerify(token)
  IN  IF decoded.ok
      THEN IF decoded.id \in Users /\ RoleOf(decoded.id) = decoded.role
           THEN AsUser(decoded.id)
           ELSE Unauthorized("Invalid token or user not found.")
      ELSE IF decoded.name = "JsonWebTokenError" THEN Unauthorized("Invalid token.")
      ELSE Unauthorized("Token expired.")

Gates == {"protect", "authVerify", "verifyCustomerSession", "verifyToken"}

\* The answer of the named gate.
Gate(gate, token) ==
  CASE gate = "protect" -> protect(token)
    [] gate = "authVerify" -> authVerify(token)
    [] gate = "verifyCustomerSession" -> verifyCustomerSession(token)
    [] gate = "verifyToken" -> verifyToken(token)

\* The token is the unexpired JWT of a vendor account.
VendorCredential(token) ==
  /\ token.kind = "jwt"
  /\ token.secret = JWT_SECRET
  /\ token.exp > now
  /\ token.id \in Users
  /\ RoleOf(token.id) = "vendor"

\* The record of a request that presented the token to the gate, with
\* what held of the token at that moment.
GateCall(gate, token) ==
  [op |-> gate, token |-> token, result |-> Gate(gate, token),
   vendor |-> VendorCredential(token), valid |-> isValid(token)]

\* A request through protect.
Protect ==
  \E token \in BearerTokens :
    /\ lastCall' = GateCall("protect", token)
    /\ UNCHANGED <<machinery, db, now, req, sessions, polling>>

\* GET /api/auth/verify
AuthVerify ==
  \E token \in BearerTokens :
    /\ lastCall' = GateCall("authVerify", token)
    /\ UNCHANGED <<machinery, db, now, req, sessions, polling>>

\* A request through verifyCustomerSession.
VerifyCustomerSession ==
  \E token \in BearerTokens :
    /\ lastCall' = GateCall("verifyCustomerSession", token)
    /\ UNCHANGED <<machinery, db, now, req, sessions, polling>>

\* A request through verifyToken.
VerifyToken ==
  \E token \in BearerTokens :
    /\ lastCall' = GateCall("verifyToken", token)
    /\ UNCHANGED <<machinery, db, now, req, sessions, polling>>

linkToCustomer_SlidingExpiry(sessionToken, customerId) ==
  [s \in DOMAIN customer_sessions |->
     IF customer_sessions[s].session_token = sessionToken
     THEN [customer_sessions[s] EXCEPT !.customer_id = customerId,
                                       !.expires_at = now + SESSION_EXPIRY_HOURS]
     ELSE customer_sessions[s]]

\* CustomerSession.linkToCustomer: UPDATE customer_sessions SET customer_id
\* = $1 WHERE session_token = $2.  The table after the call.
linkToCustomer(sessionToken, customerId) ==
  [s \in DOMAIN customer_sessions |->
     IF customer_sessions[s].session_token = sessionToken
     THEN [customer_sessions[s] EXCEPT !.customer_id = customerId]
     ELSE customer_sessions[s]]

\* A call of linkToCustomer with a session token issued before, or with a
\* uuid that is no session token, and the id of a customer account.
\* `repeated` tells that the call before was the same one.
LinkToCustomer ==
  \E n \in (1 .. nextSessionId - 1) \cup {MaxLogins + 1}, customerId \in Customers :
    /\ customer_sessions' = linkToCustomer(uuidv4(n), customerId)
    /\ lastCall' =
         [op |-> "linkToCustomer", sessionToken |-> uuidv4(n),
          customerId |-> customerId,
          repeated |-> /\ lastCall.op = "linkToCustomer"
                       /\ lastCall.sessionToken = uuidv4(n)
                       /\ lastCall.customerId = customerId,
          changed |-> customer_sessions' # customer_sessions]
    /\ UNCHANGED <<machinery, db, now, req, inactive_machines, nextSessionId, login, polling>>

deleteExpired_Inclusive ==
  LET expired == {s \in DOMAIN customer_sessions : customer_sessions[s].expires_at <= now}
  IN  [rows |-> [s \in DOMAIN customer_sessions \ expired |-> customer_sessions[s]],
       rowCount |-> Cardinality(expired)]

\* CustomerSession.deleteExpired: DELETE FROM customer_sessions WHERE
\* expires_at < NOW(); the table after the call and result.rowCount.
deleteExpired ==
  LET expired == {s \in DOMAIN customer_sessions : customer_sessions[s].expires_at < now}
  IN  [rows |-> [s \in DOMAIN customer_sessions \ expired |-> customer_sessions[s]],
       rowCount |-> Cardinality(expired)]

\* A call of deleteExpired.
DeleteExpired ==
  /\ customer_sessions' = deleteExpired.rows
  /\ lastCall' = [op |-> "deleteExpired", rowCount |-> deleteExpired.rowCount]
  /\ UNCHANGED <<machinery, db, now, req, inactive_machines, nextSessionId, login, polling>>

\* PUT /api/vendor/machines/:id with isActive.
UpdateMachine ==
  \E m \in vending_machines, isActive \in BOOLEAN :
    /\ inactive_machines' =
         IF isActive THEN inactive_machines \ {m} ELSE inactive_machines \cup {m}
    /\ UNCHANGED <<machinery, db, now, req, customer_sessions, nextSessionId, login, polling,
                   lastCall>>

(***************************************************************************)
(* POST /api/auth/customer/qr-login.                                       *)
(***************************************************************************)
\* The codes scanned at a login: the code of each machine, a code older
\* than MAX_AGE, and a string that is no issued code.
LoginQR ==
  {encrypt(JSONstringify([machineId |-> m, timestamp |-> Epoch - 1, uniqueId |-> 1]), 1) :
     m \in Machines}
    \cup {encrypt(JSONstringify([machineId |-> 1, timestamp |-> Epoch - MAX_AGE - 1,
                                 uniqueId |-> 1]), 1),
          encrypt([wellFormed |-> TRUE, members |-> <<<<"machineId", 1>>>>], 1)}

IdleLogin ==
  [pc |-> "idle", qrData |-> encrypt([wellFormed |-> FALSE, members |-> <<>>], 1),
   machineId |-> NULL, status |-> 0, session |-> NULL]

\* if (machineResult.rows.length === 0) 404; if (!machine.is_active) 403
MachineCheck_NoActive(machineId) ==
  IF machineId \notin vending_machines THEN 404
  ELSE 200

MachineCheck(machineId) ==
  IF machineId \notin vending_machines THEN 404
  ELSE IF machineId \in inactive_machines THEN 403
  ELSE 200

\* CustomerSession.create: the row inserted for the n-th session.
create(customerId, machineId, n) ==
  [customer_id |-> customerId, machine_id |-> machineId,
   session_token |-> uuidv4(n), expires_at |-> now + SESSION_EXPIRY_HOURS]

\* The request arrives; validateQRCodeData runs before the first await.
QrLoginValidate ==
  \E l \in LoginIds, qrData \in LoginQR :
    LET qrPayload == validateQRCodeData(qrData)
    IN  /\ login[l].pc = "idle"
        /\ login' =
             [login EXCEPT ![l] =
                IF qrPayload.valid
                THEN [@ EXCEPT !.pc = "select", !.qrData = qrData,
                               !.machineId = qrPayload.payload.machineId]
                ELSE [@ EXCEPT !.pc = "done", !.qrData = qrData, !.status = 400]]
        /\ UNCHANGED <<machinery, db, now, req, inactive_machines, customer_sessions,
                       nextSessionId, polling, lastCall>>

\* SELECT id, machine_name, location, is_active FROM vending_machines
QrLoginSelectMachine ==
  \E l \in LoginIds :
    /\ login[l].pc = "select"
    /\ login' =
         [login EXCEPT ![l] =
            IF MachineCheck(login[l].machineId) = 200
            THEN [@ EXCEPT !.pc = "create"]
            ELSE [@ EXCEPT !.pc = "done", !.status = MachineCheck(login[l].machineId)]]
    /\ UNCHANGED <<machinery, db, now, req, inactive_machines, customer_sessions,
                   nextSessionId, polling, lastCall>>

\* CustomerSession.create and the response; the INSERT of a row whose
\* machine is gone violates the foreign key and is answered 500.
QrLoginCreate ==
  \E l \in LoginIds :
    /\ login[l].pc = "create"
    /\ IF login[l].machineId \in vending_machines
       THEN /\ customer_sessions' =
                 [s \in DOMAIN customer_sessions \cup {nextSessionId} |->
                    IF s = nextSessionId
                    THEN create(NULL, login[l].machineId, nextSessionId)
                    ELSE customer_sessions[s]]
            /\ nextSessionId' = nextSessionId + 1
            /\ login' = [login EXCEPT ![l] = [@ EXCEPT !.pc = "done", !.status = 200,
                                                      !.session = nextSessionId]]
       ELSE /\ login' = [login EXCEPT ![l] = [@ EXCEPT !.pc = "done", !.status = 500]]
            /\ UNCHANGED <<customer_sessions, nextSessionId>>
    /\ UNCHANGED <<machinery, db, now, req, inactive_machines, polling, lastCall>>

(***************************************************************************)
(* Poll results.                                                           *)
(***************************************************************************)
PollOptions == 1 .. NumOptions
VoteTypes == {"like", "dislike"}

\* Votes of option o joined to it by the view: LEFT JOIN poll_votes pv ON
\* po.id = pv.poll_option_id.
VotesOf(o, voteType) ==
  CountRows(poll_votes, LAMBDA pv : pv.poll_option_id = o /\ pv.vote_type = voteType)

\* Rows of the join for option o: an option without votes still has one
\* row, with the columns of pv NULL.
JoinedRows(o) ==
  LET votes == CountRows(poll_votes, LAMBDA pv : pv.poll_option_id = o)
  IN  IF votes = 0 THEN 1 ELSE votes

\* ROUND(100.0 * n / d, 1) as a count of tenths: NUMERIC rounds half away
\* from zero.
RoundedPercent(n, d) == (2000 * n + d) \div (2 * d)

poll_results_IntegerDivision(o) ==
  [option_id |-> o,
   approve_count |-> VotesOf(o, "like"),
   deny_count |-> VotesOf(o, "dislike"),
   total_votes |-> JoinedRows(o),
   approve_percent |->
     IF JoinedRows(o) > 0 THEN 10 * ((100 * VotesOf(o, "like")) \div JoinedRows(o))
     ELSE 0]

\* The row of the view poll_results for option o; approve_percent in
\* tenths of a percent.
poll_results(o) ==
  [option_id |-> o,
   approve_count |-> VotesOf(o, "like"),
   deny_count |-> VotesOf(o, "dislike"),
   total_votes |-> JoinedRows(o),
   approve_percent |->
     IF JoinedRows(o) > 0 THEN RoundedPercent(VotesOf(o, "like"), JoinedRows(o))
     ELSE 0]

\* resultsQuery.rows.reduce((sum, row) => sum + parseInt(row.total_votes), 0)
RECURSIVE SumTotalVotes(_)
SumTotalVotes(rows) ==
  IF rows = {} THEN 0
  ELSE LET row == CHOOSE x \in rows : TRUE
       IN  row.total_votes + SumTotalVotes(rows \ {row})

\* GET /api/vendor/polls/:pollId/results, asked by the vendor.  The rows
\* come ordered by approve_percent and total_votes; the order is left out.
PollResults ==
  \E pollId \in 1 .. 2 :
    LET found == pollId \in DOMAIN polls /\ polls[pollId].vendor_id = VendorId
        rows == {poll_results(o) : o \in {x \in DOMAIN poll_options :
                                             poll_options[x].poll_id = pollId}}
    IN  /\ lastCall' =
             IF found
             THEN [op |-> "results", pollId |-> pollId, status |-> 200,
                   results |-> rows, totalVotes |-> SumTotalVotes(rows)]
             ELSE [op |-> "results", pollId |-> pollId, status |-> 404,
                   results |-> {}, totalVotes |-> 0]
        /\ UNCHANGED <<machinery, db, now, req, sessions, polling>>

(***************************************************************************)
(* Machine creation: POST /api/vendor/machines and the machine loop of     *)
(* POST /api/seed/generate-test-data.                                      *)
(***************************************************************************)
CreationIds == 1 .. MaxCreations

\* The instants of the machine specification: the creations, and the
\* instants around MAX_AGE after them.
MachineInstants == {Epoch, Epoch + 1, Epoch + MAX_AGE, Epoch + MAX_AGE + 1}

\* qr_code_data TEXT UNIQUE NOT NULL: no row holds the text already.
unique_qr_code_data(qrData, except) ==
  \A m \in DOMAIN qr_code_data \ {except} : qr_code_data[m] # qrData

\* const tempQR = await generateQRCodeData(0)
tempQR(iv) == generateQRCodeData(0, iv, uuidv4(2 * nextMachineId - 1))

\* const qrCode = await generateQRCodeData(machineId)
qrCode(machineId, iv) == generateQRCodeData(machineId, iv, uuidv4(2 * machineId))

\* A creation request arrives: the route with its one machine, or the
\* seed route with its loop `for (let i = 1; i <= 25; i++)`.
MachineRequest(c) ==
  /\ creation[c].pc = "idle"
  /\ \E kind \in {"machines", "generate-test-data"} :
       creation' = [creation EXCEPT ![c] =
                      [@ EXCEPT !.pc = "insert", !.kind = kind,
                                !.left = IF kind = "machines" THEN 1 ELSE MaxTestMachines]]
  /\ UNCHANGED <<db, now, req, sessions, polling, qr_code_data, nextMachineId, lastCall>>

\* INSERT INTO vending_machines (..., qr_code_data, ...) VALUES (..., tempQR.qrData, ...)
\* RETURNING id
MachineInsert(c) ==
  /\ creation[c].pc = "insert"
  /\ \E iv \in IVs :
       LET machineId == nextMachineId
           qrData == tempQR(iv).qrData
       IN  /\ nextMachineId' = nextMachineId + 1
           /\ IF unique_qr_code_data(qrData, NULL)
              THEN /\ vending_machines' = vending_machines \cup {machineId}
                   /\ qr_code_data' =
                        [m \in DOMAIN qr_code_data \cup {machineId} |->
                           IF m = machineId THEN qrData ELSE qr_code_data[m]]
                   /\ creation' = [creation EXCEPT ![c] =
                                     [@ EXCEPT !.pc = "update", !.machineId = machineId]]
              ELSE /\ creation' = [creation EXCEPT ![c] =
                                     [@ EXCEPT !.pc = "done", !.status = 500]]
                   /\ UNCHANGED <<vending_machines, qr_code_data>>
  /\ UNCHANGED <<discount_codes, nextDiscountId, discount_redemptions, loyalty_points,
                 now, req, sessions, polling, lastCall>>

\* UPDATE vending_machines SET qr_code_data = $1, qr_code_image_url = $2 WHERE id = $3
MachineUpdate(c) ==
  /\ creation[c].pc = "update"
  /\ \E iv \in IVs :
       LET machineId == creation[c].machineId
           qrData == qrCode(machineId, iv).qrData
           left == creation[c].left - 1
       IN  IF unique_qr_code_data(qrData, machineId)
           THEN /\ qr_code_data' =
                     [m \in DOMAIN qr_code_data |->
                        IF m = machineId THEN qrData ELSE qr_code_data[m]]
                /\ creation' = [creation EXCEPT ![c] =
                                  [@ EXCEPT !.pc = IF creation[c].kind = "machines" THEN "select"
                                                   ELSE IF left > 0 THEN "insert"
                                                   ELSE "products",
                                            !.left = left,
                                            !.createdMachines = @ \cup {machineId}]]
           ELSE /\ creation' = [creation EXCEPT ![c] =
                                  [@ EXCEPT !.pc = "done", !.status = 500]]
                /\ UNCHANGED qr_code_data
  /\ UNCHANGED <<db, now, req, sessions, polling, nextMachineId, lastCall>>

\* SELECT id, ..., qr_code_data, ... FROM vending_machines WHERE id = $1, then 201
MachineSelect(c) ==
  /\ creation[c].pc = "select"
  /\ creation' = [creation EXCEPT ![c] = [@ EXCEPT !.pc = "done", !.status = 201]]
  /\ lastCall' = [op |-> "machines", machineId |-> creation[c].machineId,
                  qrData |-> IF creation[c].machineId \in vending_machines
                             THEN qr_code_data[creation[c].machineId]
                             ELSE NULL,
                  at |-> now]
  /\ UNCHANGED <<db, now, req, sessions, polling, qr_code_data, nextMachineId>>

\* The products of the seed route: INSERT INTO machine_products
\* (machine_id, ...) fails on a machine deleted in the meantime.
MachineProducts(c) ==
  /\ creation[c].pc = "products"
  /\ creation' = [creation EXCEPT ![c] =
                    [@ EXCEPT !.pc = "done",
                              !.status = IF creation[c].createdMachines \subseteq vending_machines
                                         THEN 201 ELSE 500]]
  /\ UNCHANGED <<db, now, req, sessions, polling, qr_code_data, nextMachineId, lastCall>>

(***************************************************************************)
(* Voting: POST /api/customer/polls/:pollId/vote.                          *)
(***************************************************************************)
VoteIds == 1 .. MaxVoteReqs

\* CREATE TABLE polls (id, vendor_id, machine_id, poll_question, is_active,
\* created_at, closed_at, updated_at)
polls_005 ==
  {"id", "vendor_id", "machine_id", "poll_question", "is_active", "created_at",
   "closed_at", "updated_at"}

\* The handler selects polls.expires_at, a column no migration at hand
\* creates: the table has it only if a migration that is not at hand
\* added it, and then no statement at hand writes it.
PollsSchemas == {polls_005, polls_005 \cup {"expires_at"}}

IdleVote ==
  [pc |-> "idle", session |-> NULL, customerId |-> NULL, pollId |-> NULL,
   pollOptionId |-> NULL, status |-> 0, message |-> ""]

\* The bearer tokens of vote requests: the sessions, and the vendor's JWT
\* (NULL), for which protect sets req.user and no req.session.
Voters == DOMAIN customer_sessions \cup {NULL}

\* Ids in requests: those of the rows, and one of no row.
PollIdInputs == 1 .. 3
OptionIdInputs == 1 .. NumOptions + 2

\* SELECT id FROM poll_votes WHERE poll_id = $1 AND customer_id = $2
existingVote(pollId, customerId) ==
  CountRows(poll_votes, LAMBDA pv : pv.poll_id = pollId /\ pv.customer_id = customerId)

\* vote_type VARCHAR(10) NOT NULL CHECK (vote_type IN ('like', 'dislike'))
poll_votes_vote_type(row) == row.vote_type \in {"like", "dislike"}

\* Votes in the table by the voter identity of request q on its option:
\* registered customers by customer_id, anonymous sessions by session_id.
PriorOnOption(q) ==
  CountRows(poll_votes,
            LAMBDA pv : /\ pv.poll_option_id = q.pollOptionId
                        /\ IF q.customerId # NULL THEN pv.customer_id = q.customerId
                           ELSE pv.session_id = q.session)

\* The response to vote request q, with what the tables held when it was
\* sent.
VoteAnswer(q, status, message, inserted) ==
  [op |-> "vote", session |-> q.session, customerId |-> q.customerId,
   pollId |-> q.pollId, pollOptionId |-> q.pollOptionId,
   status |-> status, message |-> message, inserted |-> inserted,
   active |-> q.pollId \in DOMAIN polls /\ polls[q.pollId].is_active,
   belongs |-> q.pollOptionId \in DOMAIN poll_options
               /\ poll_options[q.pollOptionId].poll_id = q.pollId,
   priorOnOption |-> PriorOnOption(q)]

\* res.status(...).json(...) of the vote handler.
VoteRespond(v, q, status, message, inserted) ==
  /\ vote' = [vote EXCEPT ![v] = [q EXCEPT !.pc = "done", !.status = status,
                                            !.message = message]]
  /\ lastCall' = VoteAnswer(q, status, message, inserted)

\* The request arrives with a session token or a JWT; pollCheck.
VoteStartWith(v, session, pollId, pollOptionId) ==
  LET q == [vote[v] EXCEPT !.session = session,
                           !.customerId = IF session = NULL THEN NULL
                                          ELSE customer_sessions[session].customer_id,
                           !.pollId = pollId, !.pollOptionId = pollOptionId]
  IN  /\ vote[v].pc = "idle"
      /\ IF "expires_at" \notin polls_columns
         THEN VoteRespond(v, q, 500, "Error recording vote", 0)
         ELSE IF pollId \notin DOMAIN polls
         THEN VoteRespond(v, q, 404, "Poll not found", 0)
         ELSE IF ~polls[pollId].is_active
         THEN VoteRespond(v, q, 400, "This poll is no longer active", 0)
         ELSE /\ vote' = [vote EXCEPT ![v] = [q EXCEPT !.pc = "optionCheck"]]
              /\ UNCHANGED lastCall
      /\ UNCHANGED <<db, now, req, sessions, machinery, polls, poll_options, poll_votes,
                     polls_columns>>

VoteStart(v) ==
  \E session \in Voters, pollId \in PollIdInputs, pollOptionId \in OptionIdInputs :
    VoteStartWith(v, session, pollId, pollOptionId)

\* SELECT id FROM poll_options WHERE id = $1 AND poll_id = $2, then the
\* read of req.session.customerId.
VoteOptionCheck(v) ==
  LET q == vote[v]
  IN  /\ q.pc = "optionCheck"
      /\ IF ~(q.pollOptionId \in DOMAIN poll_options
              /\ poll_options[q.pollOptionId].poll_id = q.pollId)
         THEN VoteRespond(v, q, 400, "Invalid poll option", 0)
         ELSE IF q.session = NULL
         THEN VoteRespond(v, q, 500, "Error recording vote", 0)
         ELSE /\ vote' = [vote EXCEPT ![v] =
                            [q EXCEPT !.pc = IF q.customerId # NULL THEN "existingVote"
                                             ELSE "insert"]]
              /\ UNCHANGED lastCall
      /\ UNCHANGED <<db, now, req, sessions, machinery, polls, poll_options, poll_votes,
                     polls_columns>>

\* if (req.session.customerId) { existingVote ... }
VoteExistingVote(v) ==
  LET q == vote[v]
  IN  /\ q.pc = "existingVote"
      /\ IF existingVote(q.pollId, q.customerId) > 0
         THEN VoteRespond(v, q, 400, "You have already voted on this poll", 0)
         ELSE /\ vote' = [vote EXCEPT ![v] = [q EXCEPT !.pc = "insert"]]
              /\ UNCHANGED lastCall
      /\ UNCHANGED <<db, now, req, sessions, machinery, polls, poll_options, poll_votes,
                     polls_columns>>

\* INSERT INTO poll_votes (poll_id, poll_option_id, customer_id, session_id)
\* VALUES ($1, $2, $3, $4): vote_type is left out.
VoteInsert(v) ==
  LET q == vote[v]
      row == [poll_id |-> q.pollId, poll_option_id |-> q.pollOptionId,
              customer_id |-> q.customerId, session_id |-> q.session,
              vote_type |-> NullText]
  IN  /\ q.pc = "insert"
      /\ IF /\ poll_votes_vote_type(row)
            /\ q.pollId \in DOMAIN polls
            /\ q.pollOptionId \in DOMAIN poll_options
         THEN /\ poll_votes' = InsertRow(poll_votes, row)
              /\ VoteRespond(v, q, 200, "Vote recorded successfully", 1)
         ELSE /\ UNCHANGED poll_votes
              /\ VoteRespond(v, q, 500, "Error recording vote", 0)
      /\ UNCHANGED <<db, now, req, sessions, machinery, polls, poll_options, polls_columns>>

\* No session, no QR login, every machine active.
NoSessions ==
  /\ inactive_machines = {}
  /\ customer_sessions = [s \in {} |-> NULL]
  /\ nextSessionId = 1
  /\ login = [l \in {} |-> NULL]

\* No poll, no vote request.
NoPolls ==
  /\ polls = [p \in {} |-> NULL]
  /\ poll_options = [o \in {} |-> NULL]
  /\ poll_votes = EmptyBag
  /\ polls_columns = polls_005
  /\ vote = [v \in {} |-> IdleVote]

\* Nothing called yet.
NoCall == [op |-> "none"]

\* A handler of a machine creation request that has not started.
IdleCreation ==
  [pc |-> "idle", kind |-> "", machineId |-> NULL, left |-> 0,
   createdMachines |-> {}, status |-> 0]

\* The machines of the other specifications were created by requests that
\* completed at the starting instant; no creation request follows.
Installed ==
  /\ qr_code_data = [m \in Machines |-> generateQRCodeData(m, 1, uuidv4(2 * m)).qrData]
  /\ nextMachineId = NumMachines + 1
  /\ creation = [c \in {} |-> IdleCreation]

(***************************************************************************)
(* Specification.                                                          *)
(***************************************************************************)
Init ==
  /\ vending_machines = Machines
  /\ discount_codes = [d \in {} |-> NULL]
  /\ nextDiscountId = 1
  /\ discount_redemptions = EmptyBag
  /\ loyalty_points = EmptyBag
  /\ now = 1
  /\ req = [r \in ReqIds |-> IdleReq]
  /\ NoSessions
  /\ NoPolls
  /\ lastCall = NoCall
  /\ Installed

\* Concurrent requests, served at one instant.
Next ==
  \/ \E r \in DOMAIN req : RedeemStart(r)
  \/ \E r \in DOMAIN req : RedeemRedemptionCheck(r)
  \/ \E r \in DOMAIN req : RedeemInsert(r)
  \/ \E r \in DOMAIN req : RedeemIncrement(r)
  \/ \E r \in DOMAIN req : SubmitStart(r)
  \/ \E r \in DOMAIN req : SubmitRedemptionCheck(r)
  \/ \E r \in DOMAIN req : SubmitInsert(r)
  \/ \E r \in DOMAIN req : SubmitIncrement(r)
  \/ \E r \in DOMAIN req : SubmitLoyaltyCheck(r)
  \/ \E r \in DOMAIN req : SubmitLoyaltyWrite(r)
  \/ \E r \in DOMAIN req : SubmitLoyaltyTotals(r)
  \/ \E r \in DOMAIN req : LoyaltyStart(r)
  \/ \E r \in DOMAIN req : LoyaltyUpsert(r)
  \/ CreateDiscount(NoWindow)
  \/ DeleteDiscount
  \/ DeleteMachine

Spec == Init /\ [][Next]_vars

\* Redeem calls made one after the other, while time passes.
InitSeq ==
  /\ vending_machines = Machines
  /\ discount_codes = [d \in {} |-> NULL]
  /\ nextDiscountId = 1
  /\ discount_redemptions = EmptyBag
  /\ loyalty_points = EmptyBag
  /\ now = 1
  /\ req = [r \in SeqReqIds |-> IdleReq]
  /\ NoSessions
  /\ NoPolls
  /\ lastCall = NoCall
  /\ Installed

NoneInFlight == \A q \in DOMAIN req : req[q].pc \in {"idle", "done"}

NextSeq ==
  \/ \E r \in DOMAIN req : NoneInFlight /\ RedeemStart(r)
  \/ \E r \in DOMAIN req : RedeemRedemptionCheck(r)
  \/ \E r \in DOMAIN req : RedeemInsert(r)
  \/ \E r \in DOMAIN req : RedeemIncrement(r)
  \/ CreateDiscount(Windows)
  \/ Tick

SpecSeq == InitSeq /\ [][NextSeq]_vars

\* The QR payload service alone.
InitQR ==
  /\ vending_machines = Machines
  /\ discount_codes = [d \in {} |-> NULL]
  /\ nextDiscountId = 1
  /\ discount_redemptions = EmptyBag
  /\ loyalty_points = EmptyBag
  /\ now = Epoch
  /\ req = [r \in {} |-> IdleReq]
  /\ NoSessions
  /\ NoPolls
  /\ lastCall = NoCall
  /\ Installed

NextQR ==
  \/ ScanGenerated
  \/ Scan
  \/ Advance(QRInstants)

SpecQR == InitQR /\ [][NextQR]_vars

\* Sessions and authentication: the vendor account and the machines
\* exist, nobody has logged in by QR code yet.
InitAuth ==
  /\ vending_machines = Machines
  /\ discount_codes = [d \in {} |-> NULL]
  /\ nextDiscountId = 1
  /\ discount_redemptions = EmptyBag
  /\ loyalty_points = EmptyBag
  /\ now = Epoch
  /\ req = [r \in {} |-> IdleReq]
  /\ inactive_machines = {}
  /\ customer_sessions = [s \in {} |-> NULL]
  /\ nextSessionId = 1
  /\ login = [l \in LoginIds |-> IdleLogin]
  /\ NoPolls
  /\ lastCall = NoCall
  /\ Installed

NextAuth ==
  \/ QrLoginValidate
  \/ QrLoginSelectMachine
  \/ QrLoginCreate
  \/ LinkToCustomer
  \/ DeleteExpired
  \/ Protect
  \/ AuthVerify
  \/ VerifyCustomerSession
  \/ VerifyToken
  \/ UpdateMachine
  \/ DeleteMachine
  \/ Advance(AuthInstants)

SpecAuth == InitAuth /\ [][NextAuth]_vars

\* The poll results over every content of poll_votes within the bounds:
\* one poll of the vendor with its options, and votes whose sessions have
\* since been deleted (ON DELETE SET NULL).
InitPoll ==
  /\ vending_machines = Machines
  /\ discount_codes = [d \in {} |-> NULL]
  /\ nextDiscountId = 1
  /\ discount_redemptions = EmptyBag
  /\ loyalty_points = EmptyBag
  /\ now = Epoch
  /\ req = [r \in {} |-> IdleReq]
  /\ NoSessions
  /\ polls = [p \in {1} |-> [vendor_id |-> VendorId, machine_id |-> 1, is_active |-> TRUE]]
  /\ poll_options = [o \in PollOptions |-> [poll_id |-> 1]]
  /\ \E votes \in [PollOptions \X VoteTypes -> 0 .. MaxVotes] :
       poll_votes =
         [pv \in {[poll_id |-> 1, poll_option_id |-> x[1], customer_id |-> NULL,
                   session_id |-> NULL, vote_type |-> x[2]] :
                    x \in {y \in PollOptions \X VoteTypes : votes[y] > 0}}
            |-> votes[<<pv.poll_option_id, pv.vote_type>>]]
  /\ polls_columns = polls_005
  /\ vote = [v \in {} |-> IdleVote]
  /\ lastCall = NoCall
  /\ Installed

NextPoll ==
  \/ PollResults

SpecPoll == InitPoll /\ [][NextPoll]_vars

\* One redeem request at a time against every discount row within the
\* bounds.  The routes create codes active; is_active = FALSE is written
\* outside them.  The row carries one use per redemption recorded.
InitOrder ==
  /\ vending_machines = Machines
  /\ \E machineId \in Machines, maxUses \in {NULL} \cup (1 .. MaxUsesInput),
        validFrom \in {NULL} \cup (1 .. MaxTime), validUntil \in {NULL} \cup (1 .. MaxTime),
        isActive \in BOOLEAN, redeemed \in SUBSET Customers :
       /\ discount_codes =
            [d \in {1} |->
               [machine_id |-> machineId, code |-> toUpperCase(VendorCode(1)),
                max_uses |-> maxUses, current_uses |-> Cardinality(redeemed),
                valid_from |-> validFrom, valid_until |-> validUntil,
                is_active |-> isActive]]
       /\ discount_redemptions =
            SetToBag({[discount_code_id |-> 1, customer_id |-> c,
                       machine_id |-> machineId, proof_image_url |-> NullText,
                       status |-> "pending", points_awarded |-> 0] : c \in redeemed})
  /\ nextDiscountId = 2
  /\ loyalty_points = EmptyBag
  /\ now = 1
  /\ req = [r \in {1} |-> IdleReq]
  /\ NoSessions
  /\ NoPolls
  /\ lastCall = NoCall
  /\ Installed

NextOrder ==
  \/ \E r \in DOMAIN req : RedeemStart(r)
  \/ \E r \in DOMAIN req : RedeemRedemptionCheck(r)
  \/ \E r \in DOMAIN req : RedeemInsert(r)
  \/ \E r \in DOMAIN req : RedeemIncrement(r)
  \/ Tick

SpecOrder == InitOrder /\ [][NextOrder]_vars

\* Two polls with their options, the session of a registered customer and
\* an anonymous session, and every content of poll_votes in which these two
\* have voted at most once per option.
InitVote ==
  /\ vending_machines = Machines
  /\ discount_codes = [d \in {} |-> NULL]
  /\ nextDiscountId = 1
  /\ discount_redemptions = EmptyBag
  /\ loyalty_points = EmptyBag
  /\ now = Epoch
  /\ req = [r \in {} |-> IdleReq]
  /\ inactive_machines = {}
  /\ customer_sessions =
       [s \in {1, 2} |-> create(IF s = 1 THEN 1 ELSE NULL, 1, s)]
  /\ nextSessionId = 3
  /\ login = [l \in {} |-> NULL]
  /\ \E active \in BOOLEAN :
       polls = [p \in {1, 2} |-> [vendor_id |-> VendorId, machine_id |-> 1,
                                  is_active |-> IF p = 1 THEN active ELSE TRUE]]
  /\ poll_options =
       [o \in 1 .. NumOptions + 1 |-> [poll_id |-> IF o \in PollOptions THEN 1 ELSE 2]]
  /\ \E voted \in SUBSET (PollOptions \X {1, 2}) :
       poll_votes =
         SetToBag({[poll_id |-> 1, poll_option_id |-> x[1],
                    customer_id |-> customer_sessions[x[2]].customer_id,
                    session_id |-> x[2], vote_type |-> "like"] : x \in voted})
  /\ polls_columns \in PollsSchemas
  /\ vote = [v \in VoteIds |-> IdleVote]
  /\ Installed
  /\ lastCall = NoCall

NextVote ==
  \/ \E v \in DOMAIN vote : VoteStart(v)
  \/ \E v \in DOMAIN vote : VoteOptionCheck(v)
  \/ \E v \in DOMAIN vote : VoteExistingVote(v)
  \/ \E v \in DOMAIN vote : VoteInsert(v)

SpecVote == InitVote /\ [][NextVote]_vars

\* Machines are created, and deleted, while a year passes.
InitMachine ==
  /\ vending_machines = {}
  /\ discount_codes = [d \in {} |-> NULL]
  /\ nextDiscountId = 1
  /\ discount_redemptions = EmptyBag
  /\ loyalty_points = EmptyBag
  /\ now = Epoch
  /\ req = [r \in {} |-> IdleReq]
  /\ NoSessions
  /\ NoPolls
  /\ qr_code_data = [m \in {} |-> NULL]
  /\ nextMachineId = 1
  /\ creation = [c \in CreationIds |-> IdleCreation]
  /\ lastCall = [op |-> "none", machineId |-> NULL, qrData |-> NULL, at |-> NULL]

NextMachine ==
  \/ \E c \in DOMAIN creation : MachineRequest(c)
  \/ \E c \in DOMAIN creation : MachineInsert(c)
  \/ \E c \in DOMAIN creation : MachineUpdate(c)
  \/ \E c \in DOMAIN creation : MachineSelect(c)
  \/ \E c \in DOMAIN creation : MachineProducts(c)
  \/ DeleteMachine
  \/ Advance(MachineInstants)

SpecMachine == InitMachine /\ [][NextMachine]_vars

(***************************************************************************)
(* Properties of the redemption ledger.                                    *)
(***************************************************************************)
Done(r) == req[r].pc = "done"

\* The request got past its duplicate check and executed its INSERT.
ReachedInsert(r) ==
  /\ req[r].kind \in {"redeem", "submit"}
  /\ \/ req[r].inserted
     \/ /\ Done(r)
        /\ req[r].result = "ServerError"
        /\ req[r].discountId # NULL

\* Requests whose +1 on the code's counter has been executed.
UsesRecorded(d) ==
  Cardinality({r \in DOMAIN req : /\ req[r].discountId = d
                                  /\ req[r].inserted
                                  /\ req[r].pc # "increment"})

\* Redeem calls for code d by customer c that raced to the INSERT.
RedeemRacers(d, c) ==
  {r \in DOMAIN req : /\ req[r].kind = "redeem"
                      /\ req[r].discountId = d
                      /\ req[r].customerId = c
                      /\ ReachedInsert(r)}

\* C1: in every reachable state, whatever the interleaving of
\* /discounts/redeem and /redemptions/submit requests, there is at most one
\* discount_redemptions row for each (discount code, customer) pair.
C1_OneRedemptionPerPair ==
  \A d \in 1 .. MaxCodes, c \in Users : SelectRedemptions(d, c) <= 1

\* Two requests of different routes raced for one pair: one row went in and
\* the other INSERT was refused.
C1_Witness ==
  \E r1, r2 \in DOMAIN req :
    /\ req[r1].kind = "redeem" /\ req[r2].kind = "submit"
    /\ req[r1].discountId = req[r2].discountId
    /\ req[r1].customerId = req[r2].customerId
    /\ ReachedInsert(r1) /\ ReachedInsert(r2)
    /\ Done(r1) /\ Done(r2)
    /\ req[r1].inserted # req[r2].inserted
    /\ SelectRedemptions(req[r1].discountId, req[r1].customerId) = 1

\* C2: of two concurrent redeem calls for the same code and the same
\* customer (both past the duplicate check, nobody else redeeming for the
\* pair), exactly one succeeds, and the pair adds exactly 1 to the code's
\* current_uses: the counter equals the number of rows that went in.
C2_ExactlyOneRedeemWins ==
  \A d \in DOMAIN discount_codes, c \in Users :
    LET racers == RedeemRacers(d, c)
    IN  (/\ Cardinality(racers) >= 2
         /\ \A r \in racers : Done(r)
         /\ \A r \in DOMAIN req : req[r].discountId = d => Done(r)
         /\ ~\E r \in DOMAIN req : /\ req[r].kind = "submit"
                                  /\ req[r].discountId = d
                                  /\ req[r].customerId = c
                                  /\ ReachedInsert(r))
        => /\ Cardinality({r \in racers : req[r].result = "ok"}) = 1
           /\ \A r \in racers : req[r].result \in {"ok", "ServerError"}
           /\ Cardinality({r \in racers : req[r].inserted}) = 1
           /\ discount_codes[d].current_uses = UsesRecorded(d)

\* Both calls raced and are answered; the counter stands at 1.
C2_Witness ==
  \E d \in DOMAIN discount_codes, c \in Users :
    /\ Cardinality(RedeemRacers(d, c)) = 2
    /\ \A r \in RedeemRacers(d, c) : Done(r)
    /\ discount_codes[d].current_uses = 1

\* C3: for every discount code with max_uses set, current_uses <= max_uses
\* in every reachable state.
C3_UsesWithinLimit ==
  \A d \in DOMAIN discount_codes :
    discount_codes[d].max_uses # NULL =>
      discount_codes[d].current_uses <= discount_codes[d].max_uses

\* C4: for a code with max_uses = N, at most N redeem calls by distinct
\* customers succeed, however the calls interleave.
C4_AtMostMaxUsesSucceed ==
  \A d \in DOMAIN discount_codes :
    discount_codes[d].max_uses # NULL =>
      Cardinality({req[r].customerId : r \in
                     {q \in DOMAIN req : /\ req[q].kind = "redeem"
                                         /\ req[q].discountId = d
                                         /\ Done(q)
                                         /\ req[q].result = "ok"}})
        <= discount_codes[d].max_uses

\* C5: a redemption request whose INSERT loses the uniqueness race (the row
\* of the pair is there, put in by another request) is answered
\* AlreadyRedeemed, never with the generic server failure.
C5_RaceLoserGetsDomainError ==
  \A r \in DOMAIN req :
    (/\ Done(r)
     /\ ReachedInsert(r)
     /\ ~req[r].inserted
     /\ req[r].discountId \in DOMAIN discount_codes
     /\ SelectRedemptions(req[r].discountId, req[r].customerId) > 0)
    => /\ req[r].result = "AlreadyRedeemed"
       /\ Status(req[r].result) # 500

\* Three redeem calls for code d (max_uses = 1, active, no validity window)
\* made one after the other at the code's machine: two by one customer,
\* then one by another.
SequentialRedeems(d) ==
  /\ MaxSeqReqs >= 3
  /\ discount_codes[d].max_uses = 1
  /\ discount_codes[d].is_active
  /\ discount_codes[d].valid_from = NULL
  /\ discount_codes[d].valid_until = NULL
  /\ \A r \in 1 .. 3 : /\ Done(r)
                       /\ req[r].kind = "redeem"
                       /\ req[r].discountId = d
                       /\ req[r].machineId = discount_codes[d].machine_id
  /\ req[2].customerId = req[1].customerId
  /\ req[3].customerId # req[1].customerId

\* C6 as stated: for a code with max_uses = 1 redeemed sequentially, the
\* first call succeeds, the second call (same customer) fails
\* AlreadyRedeemed and the third (another customer) fails LimitReached.
C6_SecondFailsAlreadyRedeemed ==
  \A d \in DOMAIN discount_codes :
    SequentialRedeems(d) =>
      /\ req[1].result = "ok"
      /\ req[2].result = "AlreadyRedeemed"
      /\ req[3].result = "LimitReached"

\* C6 amended: the first call succeeds, and the second and the third both
\* fail LimitReached, because the limit is checked before the duplicate.
C6_SecondFailsLimitReached ==
  \A d \in DOMAIN discount_codes :
    SequentialRedeems(d) =>
      /\ req[1].result = "ok"
      /\ req[2].result = "LimitReached"
      /\ req[3].result = "LimitReached"
      /\ discount_codes[d].current_uses = 1

C6_Witness ==
  \E d \in DOMAIN discount_codes : SequentialRedeems(d)

(***************************************************************************)
(* Properties of the loyalty points.                                       *)
(***************************************************************************)
RECURSIVE SumPointsEarned(_)
SumPointsEarned(S) ==
  IF S = {} THEN 0
  ELSE LET r == CHOOSE x \in S : TRUE
       IN  req[r].pointsEarned + SumPointsEarned(S \ {r})

PairRows(c, m) == {row \in DOMAIN loyalty_points : SamePair(row, c, m)}

RECURSIVE SumBalance(_)
SumBalance(S) ==
  IF S = {} THEN 0
  ELSE LET row == CHOOSE x \in S : TRUE
       IN  loyalty_points[row] * row.points_balance + SumBalance(S \ {row})

RECURSIVE SumLifetime(_)
SumLifetime(S) ==
  IF S = {} THEN 0
  ELSE LET row == CHOOSE x \in S : TRUE
       IN  loyalty_points[row] * row.lifetime_points + SumLifetime(S \ {row})

\* The pair's counters: 0 while the pair has no row.
pointsBalance(c, m) == SumBalance(PairRows(c, m))

lifetimePoints(c, m) == SumLifetime(PairRows(c, m))

\* Award requests to the pair that were answered with success.
Acknowledged(c, m) ==
  {r \in DOMAIN req : /\ req[r].kind \in {"submit", "loyalty"}
                      /\ Done(r)
                      /\ req[r].result = "ok"
                      /\ req[r].customerId = c
                      /\ req[r].machineId = m}

AwardInFlight(c, m) ==
  \E r \in DOMAIN req : /\ req[r].kind \in {"submit", "loyalty"}
                        /\ req[r].pc \notin {"idle", "done"}
                        /\ req[r].customerId = c
                        /\ req[r].machineId = m

\* C7: once the awards to a (customer, machine) pair have completed, in
\* whatever order they interleaved, points_balance and lifetime_points of
\* the pair both equal the sum of the amounts of the awards that were
\* answered with success: no acknowledged award is lost or counted twice.
C7_AwardsAddUp ==
  \A c \in Users, m \in vending_machines :
    ~AwardInFlight(c, m) =>
      /\ pointsBalance(c, m) = SumPointsEarned(Acknowledged(c, m))
      /\ lifetimePoints(c, m) = SumPointsEarned(Acknowledged(c, m))

\* Awards of both routes to one pair have completed.
C7_Witness ==
  \E c \in Users, m \in vending_machines :
    /\ ~AwardInFlight(c, m)
    /\ \E r1, r2 \in Acknowledged(c, m) :
         req[r1].kind = "submit" /\ req[r2].kind = "loyalty"
    /\ pointsBalance(c, m) > pointsAwarded

\* C8: in every reachable state there is at most one loyalty_points row per
\* (customer, machine) pair.
C8_OneLoyaltyRowPerPair ==
  \A c \in Users, m \in Machines : SelectLoyalty(c, m) <= 1

\* Two upserts for one pair have completed: the second met the first's row.
C8_Witness ==
  \E c \in Users, m \in vending_machines :
    /\ SelectLoyalty(c, m) = 1
    /\ \E r1, r2 \in Acknowledged(c, m) :
         r1 # r2 /\ req[r1].kind = "loyalty" /\ req[r2].kind = "loyalty"

\* C9: an award to a pair creates the pair's row when there is none and adds
\* to it otherwise, on both routes: once a proof-of-purchase submission that
\* recorded its redemption, or a /loyalty/submit call that passed its
\* validation, is answered (its machine still there), the pair has a row
\* holding at least the awarded amount in both fields.
AwardedAmount(r) ==
  IF req[r].kind = "submit" THEN pointsAwarded ELSE req[r].pointsEarned

C9_AwardCreatesOrAddsRow ==
  \A r \in DOMAIN req :
    (/\ Done(r)
     /\ \/ req[r].kind = "submit" /\ req[r].inserted
        \/ req[r].kind = "loyalty" /\ req[r].result \in {"ok", "ServerError"}
     /\ req[r].machineId \in vending_machines)
    => /\ SelectLoyalty(req[r].customerId, req[r].machineId) = 1
       /\ pointsBalance(req[r].customerId, req[r].machineId) >= AwardedAmount(r)
       /\ lifetimePoints(req[r].customerId, req[r].machineId) >= AwardedAmount(r)

\* C10: for every (customer, machine) pair, no step of the system lowers the
\* lifetime_points of the pair's row.
C10_LifetimeNeverDecreases ==
  [][\A c \in Users, m \in Machines :
       (SelectLoyalty(c, m) > 0 /\ SelectLoyalty(c, m)' > 0)
         => lifetimePoints(c, m)' >= lifetimePoints(c, m)]_vars

\* A row that has been raised by a second award.
C10_Witness ==
  \E c \in Users, m \in vending_machines :
    /\ SelectLoyalty(c, m) = 1
    /\ Cardinality(Acknowledged(c, m)) = 2
    /\ lifetimePoints(c, m) = SumPointsEarned(Acknowledged(c, m))

(***************************************************************************)
(* QR payload service: properties.                                         *)
(***************************************************************************)
\* The answer of the latest call was given to a scan of `op`.
Called(op) == lastCall.op = op

\* now - payload.timestamp of the scanned code, at the time of the call.
ScannedAge == lastCall.at - Member(lastCall.qrData.encrypted.text, "timestamp")

C18_MaxAgeBoundary ==
  (Called("validate") /\ lastCall.qrData \in IssuedQR
     /\ Member(lastCall.qrData.encrypted.text, "machineId") \in Machines)
    => /\ ScannedAge > MAX_AGE
            => /\ ~lastCall.result.valid
               /\ lastCall.result.message = Corrupted("QR code expired").message
       /\ ScannedAge = MAX_AGE - 1 => lastCall.result.valid

C18_Witness ==
  /\ Called("validate")
  /\ lastCall.qrData \in IssuedQR
  /\ Member(lastCall.qrData.encrypted.text, "machineId") \in Machines
  /\ ScannedAge = MAX_AGE + 1
  /\ ~lastCall.result.valid
  /\ lastCall.result.message = Corrupted("QR code expired").message

(***************************************************************************)
(* Poll results: properties.                                               *)
(***************************************************************************)
\* Votes of one type recorded for option o in the table.
Recorded(o, voteType) ==
  CountRows(poll_votes, LAMBDA pv : pv.poll_option_id = o /\ pv.vote_type = voteType)

\* p tenths of a percent is n / d * 100 rounded to one decimal: no other
\* count of tenths is nearer.
IsPercentOf(p, n, d) ==
  /\ 2 * (p * d - 1000 * n) <= d
  /\ 2 * (1000 * n - p * d) <= d

\* C20: the poll results report for each option approve_percent = likes /
\* votes * 100 rounded to one decimal and 0 for an option without votes;
\* 3 likes and 1 dislike give 75.0.
C20_ApprovePercent ==
  (Called("results") /\ lastCall.status = 200)
    => \A row \in lastCall.results :
         LET likes == Recorded(row.option_id, "like")
             votes == likes + Recorded(row.option_id, "dislike")
         IN  /\ votes = 0 => row.approve_percent = 0
             /\ votes > 0 => IsPercentOf(row.approve_percent, likes, votes)
             /\ (likes = 3 /\ votes = 4) => row.approve_percent = 750

C20_Witness ==
  /\ Called("results")
  /\ lastCall.status = 200
  /\ \E row \in lastCall.results :
       /\ Recorded(row.option_id, "like") = 3
       /\ Recorded(row.option_id, "dislike") = 1
       /\ row.approve_percent = 750
  /\ \E row \in lastCall.results :
       /\ Recorded(row.option_id, "like") + Recorded(row.option_id, "dislike") = 0
       /\ row.approve_percent = 0

(***************************************************************************)
(* Sessions and authentication: properties.                                *)
(***************************************************************************)
\* The gates that accept session tokens.
SessionGates == {"protect", "authVerify", "verifyCustomerSession"}

\* The latest call presented a session token to one of the gates.
SessionTokenPresented(gates) ==
  /\ lastCall.op \in gates
  /\ lastCall.token.kind = "uuid"

\* C12: a gate accepts a session token exactly when isValid held of it at
\* the check, and a token issued and no longer valid never becomes valid
\* again.
C12_SessionAcceptedIffValid ==
  /\ [](SessionTokenPresented(SessionGates)
          => (lastCall.result.status = 200 <=> lastCall.valid))
  /\ [][\A n \in 1 .. MaxLogins :
          (n < nextSessionId /\ ~isValid(Bearer(uuidv4(n))))
            => ~isValid(Bearer(uuidv4(n)))']_vars

\* A token accepted before is presented at the instant its session
\* expires, the row still in the table, and is refused.
C12_Witness ==
  /\ SessionTokenPresented(SessionGates)
  /\ lastCall.result.status = 401
  /\ \E s \in DOMAIN customer_sessions :
       /\ customer_sessions[s].session_token = lastCall.token.id
       /\ customer_sessions[s].expires_at = now

C14_UniformUnauthorized ==
  \A gate \in Gates, t1, t2 \in BearerTokens :
    (Gate(gate, t1).status = 401 /\ Gate(gate, t2).status = 401)
      => Gate(gate, t1) = Gate(gate, t2)

C16_LinkIdempotent ==
  (Called("linkToCustomer") /\ lastCall.repeated) => ~lastCall.changed

\* The repeated call came later than the first, for a session that exists.
C16_Witness ==
  /\ Called("linkToCustomer")
  /\ lastCall.repeated
  /\ now > Epoch
  /\ \E s \in DOMAIN customer_sessions :
       /\ customer_sessions[s].session_token = lastCall.sessionToken
       /\ customer_sessions[s].customer_id = lastCall.customerId
       /\ customer_sessions[s].expires_at = Epoch + SESSION_EXPIRY_HOURS

\* The machine the scanned code names, read from the code itself.
ScannedMachine(qrData) == JSONparse(decrypt(qrData)).machineId

\* C19: a step that adds a session row is the last step of a QR login
\* whose code validated and whose machine was found active; the row is
\* anonymous, of the machine of the code, and expires SESSION_EXPIRY_HOURS
\* after the step; a login answered with a failure adds no row.
C19_SessionOnlyOnValidScan ==
  /\ [][\A s \in DOMAIN customer_sessions' \ DOMAIN customer_sessions :
          \E l \in LoginIds :
            /\ login[l].pc = "create"
            /\ login'[l].status = 200
            /\ login'[l].session = s
            /\ validateQRCodeData(login[l].qrData).valid
            /\ customer_sessions'[s].customer_id = NULL
            /\ customer_sessions'[s].machine_id = ScannedMachine(login[l].qrData)
            /\ customer_sessions'[s].machine_id \in vending_machines
            /\ customer_sessions'[s].expires_at = now + SESSION_EXPIRY_HOURS]_vars
  /\ [][\A l \in LoginIds :
          (login[l].pc # "done" /\ login'[l].pc = "done" /\ login'[l].status # 200)
            => customer_sessions' = customer_sessions]_vars
  /\ [][\A l \in LoginIds :
          (login[l].pc = "select" /\ login'[l].pc = "create")
            => (login[l].machineId \in vending_machines \ inactive_machines)]_vars

\* One login created a session, another was refused for an inactive
\* machine.
C19_Witness ==
  /\ \E l \in LoginIds : login[l].status = 200 /\ login[l].session \in DOMAIN customer_sessions
  /\ \E l \in LoginIds : login[l].status = 403
  /\ Cardinality(DOMAIN customer_sessions) = 1

\* C30: the poll results report for each option total_votes = the vote
\* rows of that option (0 without votes), and totalVotes = the vote rows of
\* the poll.
C30_TotalVotesCountsRows ==
  (Called("results") /\ lastCall.status = 200)
    => /\ \A row \in lastCall.results :
            /\ row.total_votes = Recorded(row.option_id, "like")
                                   + Recorded(row.option_id, "dislike")
            /\ row.total_votes = row.approve_count + row.deny_count
       /\ lastCall.totalVotes =
            CountRows(poll_votes, LAMBDA pv : pv.poll_id = lastCall.pollId)

\* C25: a call of deleteExpired removes exactly the sessions with
\* expires_at < now, none of them valid, returns their number and leaves
\* the other rows as they were.
C25_DeleteExpiredExact ==
  [][DeleteExpired =>
       LET removed == DOMAIN customer_sessions \ DOMAIN customer_sessions'
       IN  /\ removed = {s \in DOMAIN customer_sessions :
                           customer_sessions[s].expires_at < now}
           /\ lastCall'.rowCount = Cardinality(removed)
           /\ \A s \in removed :
                ~isValid(Bearer(customer_sessions[s].session_token))
           /\ DOMAIN customer_sessions' \subseteq DOMAIN customer_sessions
           /\ \A s \in DOMAIN customer_sessions' :
                customer_sessions'[s] = customer_sessions[s]]_vars

\* The call removed one session and left one that expires at this instant.
C25_Witness ==
  /\ Called("deleteExpired")
  /\ lastCall.rowCount = 1
  /\ \E s \in DOMAIN customer_sessions : customer_sessions[s].expires_at = now

(***************************************************************************)
(* Order of the redeem preconditions.                                      *)
(***************************************************************************)
\* The preconditions of redeem on the row of the code, in the order
\* claimed, each with whether it fails now for a customer at machineId.
RedeemPreconditions(code, machineId) ==
  LET found == {d \in DOMAIN discount_codes : discount_codes[d].code = toUpperCase(code)}
      discount == discount_codes[CHOOSE d \in found : TRUE]
  IN  IF found = {} THEN <<[error |-> "NotFound", fails |-> TRUE]>>
      ELSE <<[error |-> "NotFound", fails |-> FALSE],
             [error |-> "WrongMachine", fails |-> discount.machine_id # machineId],
             [error |-> "Inactive", fails |-> ~discount.is_active],
             [error |-> "NotYetValid",
              fails |-> discount.valid_from # NULL /\ ~(discount.valid_from <= now)],
             [error |-> "Expired",
              fails |-> discount.valid_until # NULL /\ ~(now <= discount.valid_until)],
             [error |-> "LimitReached",
              fails |-> discount.max_uses # NULL
                        /\ ~(discount.current_uses < discount.max_uses)]>>

\* The error of the first precondition that fails, "pass" when none does.
FirstFailure(preconditions) ==
  LET failing == {i \in DOMAIN preconditions : preconditions[i].fails}
  IN  IF failing = {} THEN "pass"
      ELSE preconditions[CHOOSE i \in failing : \A j \in failing : i <= j].error

\* Principals the claim speaks of: a session of a registered customer.
Registered(p) == p.hasSession /\ p.customerId # NULL /\ p.machineId # NULL

\* C21: a redeem request of a registered customer is answered with the
\* error of the first failing precondition in the order NotFound,
\* WrongMachine, Inactive, NotYetValid, Expired, LimitReached, and goes on
\* to the AlreadyRedeemed check only when none fails; AlreadyRedeemed is
\* answered exactly when the customer has a redemption of the code; the
\* window is inclusive at both bounds and an absent bound does not bound.
C21_FirstFailingPrecondition ==
  /\ [][\A r \in DOMAIN req, p \in Principals, code \in CodeInputs :
          (Registered(p) /\ RedeemStartWith(r, p, code))
            => LET first == FirstFailure(RedeemPreconditions(code, p.machineId))
               IN  /\ req'[r].pc = "done" => req'[r].result = first
                   /\ req'[r].pc # "done"
                        => (first = "pass" /\ req'[r].pc = "redemptionCheck")]_vars
  /\ [][\A r \in DOMAIN req :
          RedeemRedemptionCheck(r)
            => LET prior == CountRows(discount_redemptions,
                                      LAMBDA x : /\ x.discount_code_id = req[r].discountId
                                                 /\ x.customer_id = req[r].customerId)
               IN  IF prior > 0
                   THEN req'[r].pc = "done" /\ req'[r].result = "AlreadyRedeemed"
                   ELSE req'[r].pc = "insert"]_vars

\* A code for another machine that is also inactive, with a closed window
\* and its limit used up, was answered WrongMachine.
C21_Witness ==
  \E r \in DOMAIN req :
    /\ req[r].kind = "redeem"
    /\ req[r].result = "WrongMachine"
    /\ ~discount_codes[req[r].discountId].is_active
    /\ discount_codes[req[r].discountId].valid_until # NULL
    /\ discount_codes[req[r].discountId].valid_until < now
    /\ discount_codes[req[r].discountId].max_uses # NULL
    /\ discount_codes[req[r].discountId].current_uses
         >= discount_codes[req[r].discountId].max_uses

(***************************************************************************)
(* Ledger: counter, frame and atomicity.                                   *)
(***************************************************************************)
\* Rows of discount_redemptions recorded for code d.
RedemptionsOf(d) ==
  CountRows(discount_redemptions, LAMBDA x : x.discount_code_id = d)

\* C22: current_uses of a code changes only by +1, in the step of a
\* request that inserted a redemption row for the code just before; when
\* no request is in flight, current_uses of every code is the number of
\* its redemption rows.
C22_UsesFollowRedemptions ==
  /\ [][\A d \in DOMAIN discount_codes \cap DOMAIN discount_codes' :
          discount_codes'[d].current_uses # discount_codes[d].current_uses
            => /\ discount_codes'[d].current_uses = discount_codes[d].current_uses + 1
               /\ \E r \in DOMAIN req :
                    /\ req[r].pc = "increment"
                    /\ req[r].inserted
                    /\ req[r].discountId = d
                    /\ req'[r].pc # "increment"
               /\ RedemptionsOf(d) > 0]_vars
  /\ [](NoneInFlight
          => \A d \in DOMAIN discount_codes :
               discount_codes[d].current_uses = RedemptionsOf(d))

\* Two customers have redeemed one code, a third request was refused, and
\* nothing is in flight.
C22_Witness ==
  /\ NoneInFlight
  /\ \E d \in DOMAIN discount_codes :
       /\ discount_codes[d].current_uses = 2
       /\ RedemptionsOf(d) = 2
  /\ Cardinality(DOMAIN discount_codes) = 2

\* The responses by which a redemption handler refuses a request.
Rejections ==
  {"NoMachineSession", "RegisterRequired", "AuthRequired", "ProofRequired",
   "NotFound", "WrongMachine", "Inactive", "NotYetValid", "Expired",
   "LimitReached", "AlreadyRedeemed"}

\* The request is a redemption request answered with a refusal.
Rejected(q) ==
  /\ q.kind \in {"redeem", "submit"}
  /\ q.pc = "done"
  /\ q.result \in Rejections

C26_SubmitAllOrNothing ==
  \A r \in DOMAIN req :
    (Done(r) /\ req[r].kind = "submit" /\ req[r].result # "ok")
      => ~req[r].inserted

\* C27: every redemption row and every loyalty row is of a registered
\* customer: no vendor credential and no anonymous session writes one.
C27_RowsOfRegisteredCustomers ==
  /\ \A row \in DOMAIN discount_redemptions : row.customer_id \in Customers
  /\ \A row \in DOMAIN loyalty_points : row.customer_id \in Customers
  /\ \A r \in DOMAIN req : req[r].inserted => req[r].customerId \in Customers

\* C28: a redemption row is of the machine of its discount code, and a
\* request that goes on to record a redemption does so for the machine of
\* the customer session it came with.
C28_RedeemAtSessionMachine ==
  /\ [](\A row \in DOMAIN discount_redemptions :
          row.discount_code_id \in DOMAIN discount_codes
            => row.machine_id = discount_codes[row.discount_code_id].machine_id)
  /\ [][\A r \in DOMAIN req, p \in Principals, code \in CodeInputs :
          (RedeemStartWith(r, p, code) /\ req'[r].pc = "redemptionCheck")
            => (p.hasSession /\ req'[r].machineId = p.machineId)]_vars
  /\ [][\A r \in DOMAIN req, p \in Principals, machineId \in Machines,
           discountId \in 1 .. MaxCodes :
          (SubmitStartWith(r, p, machineId, discountId, TRUE)
             /\ req'[r].pc = "redemptionCheck")
            => (p.hasSession /\ req'[r].machineId = p.machineId)]_vars

(***************************************************************************)
(* Machine creation: properties.                                           *)
(***************************************************************************)
\* No handler of a creation request is between its first statement and
\* its response.
NoCreationInFlight == \A c \in DOMAIN creation : creation[c].pc \in {"idle", "done"}

\* The payload sealed in the stored code of machine m.
StoredPayload(m) == JSONparse(decrypt(qr_code_data[m]))

\* C29: whenever no machine creation request is in progress, the stored
\* qr_code_data of every machine validates to a payload whose machineId is
\* the machine's own id; the temporary payload of the INSERT (machineId 0)
\* is in no row of a machine whose creation completed, and validate
\* accepts it in no row.
C29_StoredCodeValidates ==
  /\ NoCreationInFlight =>
       \A m \in vending_machines :
         /\ validateQRCodeData(qr_code_data[m]).valid
         /\ validateQRCodeData(qr_code_data[m]).payload.machineId = m
  /\ \A c \in DOMAIN creation :
       (creation[c].status = 201 /\ creation[c].kind = "machines"
          /\ creation[c].machineId \in vending_machines)
         => StoredPayload(creation[c].machineId).machineId # 0
  /\ \A m \in vending_machines :
       StoredPayload(m).machineId = 0 => ~validateQRCodeData(qr_code_data[m]).valid

(***************************************************************************)
(* Voting: properties.                                                     *)
(***************************************************************************)
\* C23: a vote by a session on an active poll for an option of that poll
\* is answered with success and inserts exactly one row when the voter
\* identity has no vote on that option, also when it has voted on another
\* option of the poll; it is refused as already voted only when the voter
\* identity has a vote on that same option.
C23_VoteOnFreshOptionSucceeds ==
  (Called("vote") /\ lastCall.session # NULL /\ lastCall.active /\ lastCall.belongs)
    => /\ lastCall.priorOnOption = 0
           => (lastCall.status = 200 /\ lastCall.inserted = 1)
       /\ lastCall.message = "You have already voted on this poll"
           => lastCall.priorOnOption > 0


====
